---- MODULE Spec2Model ----
(***************************************************************************)
(* Model of the LVM devices file registry (device_id.c, carried in this    *)
(* repository as src/tools/vgextend.c): the on-disk format and its parser  *)
(* and writer, the version policy, the advisory lock protocol, and the     *)
(* matcher, validator and renamed-device search over the use_devices list. *)
(* The last sections model the multipath component detector               *)
(* (src/lib/device/dev-mpath.c): the holders check and its memo, the wwids *)
(* file and the blacklist sections of the multipath configuration.         *)
(*                                                                         *)
(* Strings are sequences of one-character strings, NULL is the C null      *)
(* pointer.  A PVID stands for the full ID_LEN-character identifier, so    *)
(* memcmp(a, b, ID_LEN) == 0 is equality of the two sequences.             *)
(***************************************************************************)
EXTENDS Integers, Sequences, FiniteSets, TLC

----------------------------------------------------------------------------
(* C strings *)

NULL == <<"NULL">>

\* F applied to the value of v, v being evaluated once (a local variable that
\* holds the result of a call).
Bind(v, F(_)) == CHOOSE y \in {F(x) : x \in {v}} : TRUE

Digits == <<"0", "1", "2", "3", "4", "5", "6", "7", "8", "9">>

IsDigit(c) == \E i \in 1..10 : Digits[i] = c

DigitVal(c) == (CHOOSE i \in 1..10 : Digits[i] = c) - 1

\* strncmp(s, p, strlen(p)) == 0
HasPrefix(s, p) == Len(s) >= Len(p) /\ SubSeq(s, 1, Len(p)) = p

\* The tail of s from index i on (a C pointer into s).
From(s, i) == SubSeq(s, i, Len(s))

\* strstr(s, k): index of the first occurrence of k in s, 0 when there is none.
strstr(s, k) ==
    LET hits == {i \in 1..(Len(s) - Len(k) + 1) : SubSeq(s, i, i + Len(k) - 1) = k}
    IN  IF hits = {} THEN 0 ELSE CHOOSE i \in hits : \A j \in hits : i <= j

\* strchr(s, c): index of the first c in s, 0 when there is none.
strchr(s, c) ==
    LET hits == {i \in 1..Len(s) : s[i] = c}
    IN  IF hits = {} THEN 0 ELSE CHOOSE i \in hits : \A j \in hits : i <= j

\* printf("%u") / printf("%d") of a natural number.
RECURSIVE FmtNat(_)
FmtNat(n) == IF n < 10 THEN <<Digits[n + 1]>>
             ELSE FmtNat(n \div 10) \o <<Digits[(n % 10) + 1]>>

FmtInt(n) == IF n < 0 THEN <<"-">> \o FmtNat(-n) ELSE FmtNat(n)

\* Length of the run of digits at the head of s.
RECURSIVE DigitRun(_)
DigitRun(s) == IF s = <<>> \/ ~IsDigit(Head(s)) THEN 0 ELSE 1 + DigitRun(Tail(s))

\* Value of a run of digits (strtoul base 10), acc is the value so far.
RECURSIVE DigitsVal(_, _)
DigitsVal(s, acc) == IF s = <<>> THEN acc
                     ELSE DigitsVal(Tail(s), acc * 10 + DigitVal(Head(s)))

\* atoi(s): optional sign, then the leading digits; 0 when there are none.
atoi(s) ==
    LET neg  == s # <<>> /\ Head(s) = "-"
        body == IF s # <<>> /\ Head(s) \in {"-", "+"} THEN Tail(s) ELSE s
        n    == DigitRun(body)
        v    == DigitsVal(SubSeq(body, 1, n), 0)
    IN  IF neg THEN 0 - v ELSE v

\* sscanf(s, "%u.%u.%u", &major, &minor, &counter): the number of fields
\* converted and their values (trailing text after the third is ignored).
\* The numbers of the model stay far below 2^32, where uint32_t wraps.
sscanf_version(s) ==
    LET n1 == DigitRun(s)
        r1 == From(s, n1 + 1)
        d1 == r1 # <<>> /\ Head(r1) = "."
        s2 == IF d1 THEN Tail(r1) ELSE <<>>
        n2 == DigitRun(s2)
        r2 == From(s2, n2 + 1)
        d2 == r2 # <<>> /\ Head(r2) = "."
        s3 == IF d2 THEN Tail(r2) ELSE <<>>
        n3 == DigitRun(s3)
        cnt == IF n1 = 0 THEN 0
               ELSE IF ~d1 \/ n2 = 0 THEN 1
               ELSE IF ~d2 \/ n3 = 0 THEN 2
               ELSE 3
    IN  [n       |-> cnt,
         major   |-> IF cnt >= 1 THEN DigitsVal(SubSeq(s, 1, n1), 0) ELSE 0,
         minor   |-> IF cnt >= 2 THEN DigitsVal(SubSeq(s2, 1, n2), 0) ELSE 0,
         counter |-> IF cnt >= 3 THEN DigitsVal(SubSeq(s3, 1, n3), 0) ELSE 0]

----------------------------------------------------------------------------
(* Identity kinds *)

DEV_ID_TYPE_NONE       == "none"
DEV_ID_TYPE_SYS_WWID   == "SYS_WWID"
DEV_ID_TYPE_SYS_SERIAL == "SYS_SERIAL"
DEV_ID_TYPE_MPATH_UUID == "MPATH_UUID"
DEV_ID_TYPE_CRYPT_UUID == "CRYPT_UUID"
DEV_ID_TYPE_LVMLV_UUID == "LVMLV_UUID"
DEV_ID_TYPE_MD_UUID    == "MD_UUID"
DEV_ID_TYPE_LOOP_FILE  == "LOOP_FILE"
DEV_ID_TYPE_DEVNAME    == "DEVNAME"

IdTypes == {DEV_ID_TYPE_SYS_WWID, DEV_ID_TYPE_SYS_SERIAL, DEV_ID_TYPE_MPATH_UUID,
            DEV_ID_TYPE_CRYPT_UUID, DEV_ID_TYPE_LVMLV_UUID, DEV_ID_TYPE_MD_UUID,
            DEV_ID_TYPE_LOOP_FILE, DEV_ID_TYPE_DEVNAME}

s_sys_wwid   == <<"s", "y", "s", "_", "w", "w", "i", "d">>
s_sys_serial == <<"s", "y", "s", "_", "s", "e", "r", "i", "a", "l">>
s_devname    == <<"d", "e", "v", "n", "a", "m", "e">>
s_mpath_uuid == <<"m", "p", "a", "t", "h", "_", "u", "u", "i", "d">>
s_crypt_uuid == <<"c", "r", "y", "p", "t", "_", "u", "u", "i", "d">>
s_lvmlv_uuid == <<"l", "v", "m", "l", "v", "_", "u", "u", "i", "d">>
s_md_uuid    == <<"m", "d", "_", "u", "u", "i", "d">>
s_loop_file  == <<"l", "o", "o", "p", "_", "f", "i", "l", "e">>
s_unknown    == <<"u", "n", "k", "n", "o", "w", "n">>

idtype_to_str(idtype) ==
    CASE idtype = DEV_ID_TYPE_SYS_WWID   -> s_sys_wwid
      [] idtype = DEV_ID_TYPE_SYS_SERIAL -> s_sys_serial
      [] idtype = DEV_ID_TYPE_DEVNAME    -> s_devname
      [] idtype = DEV_ID_TYPE_MPATH_UUID -> s_mpath_uuid
      [] idtype = DEV_ID_TYPE_CRYPT_UUID -> s_crypt_uuid
      [] idtype = DEV_ID_TYPE_LVMLV_UUID -> s_lvmlv_uuid
      [] idtype = DEV_ID_TYPE_MD_UUID    -> s_md_uuid
      [] idtype = DEV_ID_TYPE_LOOP_FILE  -> s_loop_file
      [] OTHER                           -> s_unknown

idtype_from_str(str) ==
    CASE str = s_sys_wwid   -> DEV_ID_TYPE_SYS_WWID
      [] str = s_sys_serial -> DEV_ID_TYPE_SYS_SERIAL
      [] str = s_devname    -> DEV_ID_TYPE_DEVNAME
      [] str = s_mpath_uuid -> DEV_ID_TYPE_MPATH_UUID
      [] str = s_crypt_uuid -> DEV_ID_TYPE_CRYPT_UUID
      [] str = s_lvmlv_uuid -> DEV_ID_TYPE_LVMLV_UUID
      [] str = s_md_uuid    -> DEV_ID_TYPE_MD_UUID
      [] str = s_loop_file  -> DEV_ID_TYPE_LOOP_FILE
      [] OTHER              -> DEV_ID_TYPE_NONE

----------------------------------------------------------------------------
(* Names used on this host.  The text of an identifier only matters where   *)
(* the code inspects it: a leading '/', a leading '.', the /dev/dm- and     *)
(* /dev/mapper/ prefixes, the keys of the file format.                      *)

n_sda  == <<"/", "d", "e", "v", "/", "s", "d", "a">>
n_sdb  == <<"/", "d", "e", "v", "/", "s", "d", "b">>
n_sdc  == <<"/", "d", "e", "v", "/", "s", "d", "c">>
n_dm0  == <<"/", "d", "e", "v", "/", "d", "m", "-", "0">>
n_mapx == <<"/", "d", "e", "v", "/", "m", "a", "p", "p", "e", "r", "/", "x">>
n_wwid == <<"n", "a", "a", ".", "5">>
n_dot  == <<".">>
n_dotx == <<".", "x">>
n_rel  == <<"s", "d", "a">>
pv_1   == <<"P", "1">>
pv_2   == <<"P", "2">>
pv_3   == <<"P", "3">>
s_prefix_dm     == <<"/", "d", "e", "v", "/", "d", "m", "-">>
s_prefix_mapper == <<"/", "d", "e", "v", "/", "m", "a", "p", "p", "e", "r", "/">>

\* Names and identifiers of the further devices of DevTab.
n_sda1 == <<"/", "d", "e", "v", "/", "s", "d", "a", "1">>
n_sda2 == <<"/", "d", "e", "v", "/", "s", "d", "a", "2">>
n_sdd == <<"/", "d", "e", "v", "/", "s", "d", "d">>
n_sde == <<"/", "d", "e", "v", "/", "s", "d", "e">>
n_dm1 == <<"/", "d", "e", "v", "/", "d", "m", "-", "1">>
n_dm2 == <<"/", "d", "e", "v", "/", "d", "m", "-", "2">>
n_dm3 == <<"/", "d", "e", "v", "/", "d", "m", "-", "3">>
n_dm4 == <<"/", "d", "e", "v", "/", "d", "m", "-", "4">>
n_dm5 == <<"/", "d", "e", "v", "/", "d", "m", "-", "5">>
n_loop0 == <<"/", "d", "e", "v", "/", "l", "o", "o", "p", "0">>
n_loop1 == <<"/", "d", "e", "v", "/", "l", "o", "o", "p", "1">>
n_md0 == <<"/", "d", "e", "v", "/", "m", "d", "0">>
n_md1 == <<"/", "d", "e", "v", "/", "m", "d", "1">>
u_mpath == <<"m", "p", "a", "t", "h", "-", "a">>
u_crypt == <<"C", "R", "Y", "P", "T", "-", "a">>
u_lvm == <<"L", "V", "M", "-", "a">>
u_part_mpath == <<"p", "a", "r", "t", "1", "-", "m", "p", "a", "t", "h", "-", "a">>
u_other == <<"o", "t", "h", "e", "r", "-", "a">>
u_md == <<"u", "1">>
f_loop == <<"/", "f">>
f_loop_deleted == <<"/", "f", " ", "(", "d", "e", "l", "e", "t", "e", "d", ")">>
w_qemu == <<"Q", "E", "M", "U", " ", "H", "A", "R", "D", "D", "I", "S", "K">>
w_serial == <<"S", " ", "1">>

----------------------------------------------------------------------------
(* The devices file format *)

k_IDTYPE   == <<"I", "D", "T", "Y", "P", "E">>
k_IDNAME   == <<"I", "D", "N", "A", "M", "E">>
k_DEVNAME  == <<"D", "E", "V", "N", "A", "M", "E">>
k_PVID     == <<"P", "V", "I", "D">>
k_PART     == <<"P", "A", "R", "T">>
k_SYSTEMID == <<"S", "Y", "S", "T", "E", "M", "I", "D">>
k_VERSION  == <<"V", "E", "R", "S", "I", "O", "N">>

\* Index of the first character of s at or after i that is not a space
\* (Len(s) + 1 at the end of the string).
RECURSIVE SkipSpaces(_, _)
SkipSpaces(s, i) == IF i <= Len(s) /\ s[i] = " " THEN SkipSpaces(s, i + 1) ELSE i

\* The characters of s from i up to the next space, newline or end of string.
RECURSIVE CopyWord(_, _)
CopyWord(s, i) == IF i > Len(s) \/ s[i] = " " \/ s[i] = "\n" THEN <<>>
                  ELSE <<s[i]>> \o CopyWord(s, i + 1)

\* _copy_idline_str(src, dst, len): dst is the word after the first '=' of
\* src, empty when src has no '='.  Lines are shorter than len (PATH_MAX).
copy_idline_str(src) ==
    LET e == strchr(src, "=")
    IN  IF e = 0 THEN <<>> ELSE CopyWord(src, SkipSpaces(src, e + 1))

----------------------------------------------------------------------------
(* The host: the device cache and sysfs.  Device 0 is the null pointer.     *)
(* A sysfs attribute that is missing or empty reads as <<>>.                *)

MajorSd   == "sd"
MajorDm   == "dm"
MajorMd   == "md"
MajorLoop == "loop"

\* The devices of the host: for each device in the device cache its name,
\* its numbers and what sysfs holds for it.
VARIABLE devtab

\* The devices in the device cache of the command of Spec.
DevTabMain == <<
    [name |-> n_sda, major |-> MajorSd, minor |-> 0, part |-> 0, primary |-> 0,
     wwid |-> n_wwid, serial |-> <<>>, dm_uuid |-> <<>>, md_uuid |-> <<>>, loop_file |-> <<>>],
    [name |-> n_sdb, major |-> MajorSd, minor |-> 16, part |-> 0, primary |-> 0,
     wwid |-> <<>>, serial |-> <<>>, dm_uuid |-> <<>>, md_uuid |-> <<>>, loop_file |-> <<>>],
    [name |-> n_sdc, major |-> MajorSd, minor |-> 32, part |-> 0, primary |-> 0,
     wwid |-> <<>>, serial |-> <<>>, dm_uuid |-> <<>>, md_uuid |-> <<>>, loop_file |-> <<>>],
    [name |-> n_dm0, major |-> MajorDm, minor |-> 0, part |-> 0, primary |-> 0,
     wwid |-> <<>>, serial |-> <<>>, dm_uuid |-> <<>>, md_uuid |-> <<>>, loop_file |-> <<>>]
>>

\* Further devices, used where one operation is applied to one device: two
\* partitions of sda, a second path to the disk behind sda, a disk with a
\* QEMU wwid and a serial, dm devices with the uuids the code looks for, loop
\* devices and md devices with and without an identifier.
DevTabMore == <<
    [name |-> n_sda1, major |-> MajorSd, minor |-> 1, part |-> 1, primary |-> 1,
     wwid |-> <<>>, serial |-> <<>>, dm_uuid |-> <<>>, md_uuid |-> <<>>, loop_file |-> <<>>],
    [name |-> n_sda2, major |-> MajorSd, minor |-> 2, part |-> 2, primary |-> 1,
     wwid |-> <<>>, serial |-> <<>>, dm_uuid |-> <<>>, md_uuid |-> <<>>, loop_file |-> <<>>],
    [name |-> n_sdd, major |-> MajorSd, minor |-> 48, part |-> 0, primary |-> 0,
     wwid |-> n_wwid, serial |-> <<>>, dm_uuid |-> <<>>, md_uuid |-> <<>>, loop_file |-> <<>>],
    [name |-> n_sde, major |-> MajorSd, minor |-> 64, part |-> 0, primary |-> 0,
     wwid |-> w_qemu, serial |-> w_serial, dm_uuid |-> <<>>, md_uuid |-> <<>>, loop_file |-> <<>>],
    [name |-> n_dm1, major |-> MajorDm, minor |-> 1, part |-> 0, primary |-> 0,
     wwid |-> <<>>, serial |-> <<>>, dm_uuid |-> u_mpath, md_uuid |-> <<>>, loop_file |-> <<>>],
    [name |-> n_dm2, major |-> MajorDm, minor |-> 2, part |-> 0, primary |-> 0,
     wwid |-> <<>>, serial |-> <<>>, dm_uuid |-> u_crypt, md_uuid |-> <<>>, loop_file |-> <<>>],
    [name |-> n_dm3, major |-> MajorDm, minor |-> 3, part |-> 0, primary |-> 0,
     wwid |-> <<>>, serial |-> <<>>, dm_uuid |-> u_lvm, md_uuid |-> <<>>, loop_file |-> <<>>],
    [name |-> n_dm4, major |-> MajorDm, minor |-> 4, part |-> 0, primary |-> 0,
     wwid |-> <<>>, serial |-> <<>>, dm_uuid |-> u_part_mpath, md_uuid |-> <<>>, loop_file |-> <<>>],
    [name |-> n_dm5, major |-> MajorDm, minor |-> 5, part |-> 0, primary |-> 0,
     wwid |-> <<>>, serial |-> <<>>, dm_uuid |-> u_other, md_uuid |-> <<>>, loop_file |-> <<>>],
    [name |-> n_loop0, major |-> MajorLoop, minor |-> 0, part |-> 0, primary |-> 0,
     wwid |-> <<>>, serial |-> <<>>, dm_uuid |-> <<>>, md_uuid |-> <<>>, loop_file |-> f_loop],
    [name |-> n_loop1, major |-> MajorLoop, minor |-> 1, part |-> 0, primary |-> 0,
     wwid |-> <<>>, serial |-> <<>>, dm_uuid |-> <<>>, md_uuid |-> <<>>, loop_file |-> f_loop_deleted],
    [name |-> n_md0, major |-> MajorMd, minor |-> 0, part |-> 0, primary |-> 0,
     wwid |-> <<>>, serial |-> <<>>, dm_uuid |-> <<>>, md_uuid |-> u_md, loop_file |-> <<>>],
    [name |-> n_md1, major |-> MajorMd, minor |-> 1, part |-> 0, primary |-> 0,
     wwid |-> <<>>, serial |-> <<>>, dm_uuid |-> <<>>, md_uuid |-> <<>>, loop_file |-> <<>>]
>>

\* The devices of a host with devices of every type.
DevTabAll == DevTabMain \o DevTabMore

DevTab == devtab

Devs == DOMAIN DevTabMain

\* All devices of the host.
AllDevs == DOMAIN DevTab

dev_name(d) == DevTab[d].name

\* dev_cache_get_existing(cmd, name, NULL): the device with this name, 0 if none.
dev_cache_get_existing(name) ==
    IF \E d \in Devs : DevTab[d].name = name
    THEN CHOOSE d \in Devs : DevTab[d].name = name
    ELSE 0

\* stat(path): the device number behind a path, <<>> when the path does not
\* exist.  /dev/mapper/x is a second name of /dev/dm-0.
stat_rdev(path) ==
    IF path = n_mapx THEN <<MajorDm, 0>>
    ELSE LET d == dev_cache_get_existing(path)
         IN  IF d = 0 THEN <<>> ELSE <<DevTab[d].major, DevTab[d].minor>>

\* The raw sysfs attribute of one device.
SysAttr(d, suffix) ==
    CASE suffix = "device/wwid"       -> DevTab[d].wwid
      [] suffix = "wwid"              -> <<>>
      [] suffix = "device/serial"     -> DevTab[d].serial
      [] suffix = "dm/uuid"           -> DevTab[d].dm_uuid
      [] suffix = "md/uuid"           -> DevTab[d].md_uuid
      [] suffix = "loop/backing_file" -> DevTab[d].loop_file

\* read_sys_block: the attribute of the device, else of its primary device
\* when the device is a partition; <<>> is the failure return.
read_sys_block(d, suffix) ==
    IF SysAttr(d, suffix) # <<>> THEN SysAttr(d, suffix)
    ELSE IF DevTab[d].primary # 0 THEN SysAttr(DevTab[d].primary, suffix)
    ELSE <<>>

s_QEMU    == <<"Q", "E", "M", "U", " ", "H", "A", "R", "D", "D", "I", "S", "K">>
s_deleted == <<"(", "d", "e", "l", "e", "t", "e", "d", ")">>

\* isblank / isspace / iscntrl characters become '_'.
Underscored(s) == [i \in 1..Len(s) |-> IF s[i] \in {" ", "\t", "\n"} THEN "_" ELSE s[i]]

\* device_id_system_read(cmd, dev, idtype): the identifier or NULL.
device_id_system_read(d, idtype) ==
    IF idtype = DEV_ID_TYPE_DEVNAME THEN dev_name(d)
    ELSE LET raw == CASE idtype = DEV_ID_TYPE_SYS_WWID ->
                             Bind(IF read_sys_block(d, "device/wwid") # <<>>
                                  THEN read_sys_block(d, "device/wwid")
                                  ELSE read_sys_block(d, "wwid"),
                                  LAMBDA w : IF strstr(w, s_QEMU) # 0 THEN <<>> ELSE w)
                      [] idtype = DEV_ID_TYPE_SYS_SERIAL -> read_sys_block(d, "device/serial")
                      [] idtype \in {DEV_ID_TYPE_MPATH_UUID, DEV_ID_TYPE_CRYPT_UUID,
                                     DEV_ID_TYPE_LVMLV_UUID} -> read_sys_block(d, "dm/uuid")
                      [] idtype = DEV_ID_TYPE_MD_UUID -> read_sys_block(d, "md/uuid")
                      [] idtype = DEV_ID_TYPE_LOOP_FILE ->
                             Bind(read_sys_block(d, "loop/backing_file"),
                                  LAMBDA f : IF strstr(f, s_deleted) # 0 THEN <<>> ELSE f)
                      [] OTHER -> <<>>
         IN  Bind(raw, LAMBDA r : IF r = <<>> THEN NULL ELSE Underscored(r))

----------------------------------------------------------------------------
(* Use-entries (struct dev_use) and their lines in the file.                *)
(* du.dev is a device of Devs, or 0 when the entry is not matched.          *)

NewDu(idtype, idname, devname, pvid, part, dev) ==
    [idtype |-> idtype, idname |-> idname, devname |-> devname,
     pvid |-> pvid, part |-> part, dev |-> dev]

DEVICES_FILE_MAJOR == 1
DEVICES_FILE_MINOR == 1

s_eq_IDTYPE  == k_IDTYPE \o <<"=">>
s_sp_IDNAME  == <<" ">> \o k_IDNAME \o <<"=">>
s_sp_DEVNAME == <<" ">> \o k_DEVNAME \o <<"=">>
s_sp_PVID    == <<" ">> \o k_PVID \o <<"=">>
s_sp_PART    == <<" ">> \o k_PART \o <<"=">>

\* The DEVNAME value written for an entry: the matched device's current
\* name, else the stored hint; "." unless it begins with '/'.
WriteDevname(du) ==
    LET devname == IF du.dev # 0 THEN dev_name(du.dev) ELSE du.devname
    IN  IF devname = NULL \/ devname = <<>> \/ Head(devname) # "/" THEN n_dot ELSE devname

\* The PVID value written for an entry.
WritePvid(du) ==
    IF du.pvid = NULL \/ du.pvid = <<>> \/ Head(du.pvid) = "." THEN n_dot ELSE du.pvid

\* The line device_ids_write prints for one entry.
EntryLine(du) ==
    s_eq_IDTYPE \o idtype_to_str(du.idtype)
    \o s_sp_IDNAME \o (IF du.idname = NULL THEN n_dot ELSE du.idname)
    \o s_sp_DEVNAME \o WriteDevname(du)
    \o s_sp_PVID \o WritePvid(du)
    \o (IF du.part # 0 THEN s_sp_PART \o FmtInt(du.part) ELSE <<>>)
    \o <<"\n">>

\* "VERSION=%u.%u.%u" with the counter after df_counter.
VersionBuf(df_counter) ==
    k_VERSION \o <<"=">> \o FmtNat(DEVICES_FILE_MAJOR) \o <<".">>
    \o FmtNat(DEVICES_FILE_MINOR) \o <<".">> \o FmtNat(df_counter + 1)

\* The two comment lines of the header (their text is never parsed).
CommentLines == << <<"#", "\n">>, <<"#", "\n">> >>

\* Everything device_ids_write prints into the temp file.
FileText(system_id, df_counter, dus) ==
    CommentLines
    \o (IF system_id # NULL THEN << k_SYSTEMID \o <<"=">> \o system_id \o <<"\n">> >> ELSE <<>>)
    \o << VersionBuf(df_counter) \o <<"\n">> >>
    \o [i \in 1..Len(dus) |-> EntryLine(dus[i])]

\* A field of an entry line as device_ids_read keeps it: the word after the
\* key's '=', or NULL when that word is empty or begins with '.'.
FieldValue(src) ==
    LET buf == copy_idline_str(src)
    IN  IF buf # <<>> /\ Head(buf) # "." THEN buf ELSE NULL

\* device_ids_read on one entry line: <<the entry>>, or <<>> when the line
\* has no IDTYPE or no IDNAME key (the line is skipped).
ParseEntry(line) ==
    LET idtype  == strstr(line, k_IDTYPE)
        idname  == strstr(line, k_IDNAME)
        devname == strstr(line, k_DEVNAME)
        pvid    == strstr(line, k_PVID)
        part    == strstr(line, k_PART)
        tbuf    == copy_idline_str(From(line, idtype))
        pbuf    == IF part # 0 THEN FieldValue(From(line, part)) ELSE NULL
    IN  IF idtype = 0 \/ idname = 0 THEN <<>>
        ELSE << NewDu(IF tbuf # <<>> THEN idtype_from_str(tbuf) ELSE DEV_ID_TYPE_NONE,
                   FieldValue(From(line, idname)),
                   IF devname # 0 THEN FieldValue(From(line, devname)) ELSE NULL,
                   IF pvid # 0 THEN FieldValue(From(line, pvid)) ELSE NULL,
                   IF pbuf # NULL THEN atoi(pbuf) ELSE 0,
                   0) >>

\* The state device_ids_read builds while it reads lines: the entries added
\* to use_devices and the two header strings (kept when the file has no
\* such line).
RECURSIVE ReadLines(_, _)
ReadLines(lines, acc) ==
    IF lines = <<>> THEN acc
    ELSE LET line == Head(lines)
             du   == ParseEntry(line)
         IN  ReadLines(Tail(lines),
                IF line # <<>> /\ Head(line) = "#" THEN acc
                ELSE IF HasPrefix(line, k_SYSTEMID)
                THEN [acc EXCEPT !.systemid = copy_idline_str(line)]
                ELSE IF HasPrefix(line, k_VERSION)
                THEN [acc EXCEPT !.version = copy_idline_str(line)]
                ELSE [acc EXCEPT !.dus = @ \o du])

----------------------------------------------------------------------------
(* The command context (struct cmd_context): the settings the registry     *)
(* code reads.  devicesfile is TRUE when an alternate devices file is used, *)
(* name_create when cmd->name begins with pvcreate or vgcreate.             *)

s_hostA == <<"h", "A">>

BaseCmd == [enable_devices_file      |-> TRUE,
            pending_devices_file     |-> FALSE,
            create_edit_devices_file |-> FALSE,
            enable_devices_list      |-> FALSE,
            devicesfile              |-> FALSE,
            name_create              |-> FALSE,
            test_mode                |-> FALSE,
            system_id                |-> s_hostA,
            nolocking                |-> FALSE,
            sysinit                  |-> FALSE,
            ignorelockingfailure     |-> FALSE,
            expect_missing_vg_device |-> FALSE,
            ignore_device_name_mismatch |-> FALSE,
            search_for_devnames      |-> "auto",
            yes                      |-> TRUE]

----------------------------------------------------------------------------
(* The advisory lock: _devices_file_locked, _devices_fd, _using_devices_file *)

NOLOCK  == "NOLOCK"
LOCK_SH == "LOCK_SH"
LOCK_EX == "LOCK_EX"

Unlocked == [locked |-> NOLOCK, fd |-> FALSE, using |-> FALSE]

\* flock(2): may a lock of this mode be granted while the other open file
\* descriptions of the lock file hold the modes in others?
FlockCompatible(mode, others) ==
    IF mode = LOCK_EX THEN others \subseteq {NOLOCK}
    ELSE LOCK_EX \notin others

\* A mutant of LockFailureReturn: every command ignores a locking failure.
LockFailureIgnored(cmd) == TRUE

\* A mutant of LockFailureReturn with the test inverted: the commands
\* without sysinit and ignorelockingfailure go on after a locking failure.
LockFailureInverted(cmd) == ~(cmd.sysinit \/ cmd.ignorelockingfailure)

\* What _lock_devices_file returns when the lock file cannot be opened or
\* flock fails.
LockFailureReturn(cmd) == cmd.sysinit \/ cmd.ignorelockingfailure

\* A mutant of AlreadyLocked: a lock the command holds is never recognised.
AlreadyLockedNever(st, mode) == FALSE

\* _devices_file_locked == mode: the command already holds this lock.
AlreadyLocked(st, mode) == st.locked = mode

\* _lock_devices_file(cmd, mode, nonblock, held).  sys is what the system
\* calls do: "ok", "open_fail" (the lock file cannot be opened) or
\* "flock_fail" (flock returns an error: the lock is busy for a nonblocking
\* call, an interrupted wait for a blocking one).  The result holds the
\* return value, *held, the lock state after the call, and whether the
\* kernel now holds a lock for this process.
lock_devices_file_(cmd, st, mode, sys) ==
    IF ~cmd.enable_devices_file \/ cmd.nolocking
    THEN [ret |-> TRUE, held |-> FALSE, st |-> st, flocked |-> FALSE]
    ELSE LET st1 == [st EXCEPT !.using = TRUE]
         IN  IF AlreadyLocked(st, mode)
             THEN [ret |-> TRUE, held |-> TRUE, st |-> st1, flocked |-> FALSE]
             ELSE IF st.locked # NOLOCK \/ st.fd
             THEN [ret |-> FALSE, held |-> FALSE, st |-> st1, flocked |-> FALSE]
             ELSE IF sys = "ok"
             THEN [ret |-> TRUE, held |-> FALSE,
                   st |-> [st1 EXCEPT !.locked = mode, !.fd = TRUE], flocked |-> TRUE]
             ELSE [ret |-> LockFailureReturn(cmd), held |-> FALSE, st |-> st1,
                   flocked |-> FALSE]

\* Does unlock_devices_file reach flock(LOCK_UN) and close?
UnlockActs(cmd, st) ==
    /\ cmd.enable_devices_file /\ ~cmd.nolocking /\ st.using
    /\ ~(st.locked = NOLOCK /\ cmd.sysinit)
    /\ st.fd

\* unlock_devices_file(cmd): the lock state after the call.
unlock_devices_file(cmd, st) ==
    IF UnlockActs(cmd, st) THEN [st EXCEPT !.locked = NOLOCK, !.fd = FALSE] ELSE st

----------------------------------------------------------------------------
(* device_ids_write and the version check, as operators on the file        *)

\* A file that does not exist (fopen / stat fail with ENOENT).
NoFile == << <<"ENOENT">> >>

\* The temp file <path>_new: its text and the process whose stream created
\* it; owner 0 means the path does not exist.
NoTmp == [owner |-> 0, text |-> <<>>]

\* The lines of a file that device_ids_version_unchanged looks at.
RECURSIVE FirstVersionLine(_)
FirstVersionLine(lines) ==
    IF lines = <<>> THEN <<>>
    ELSE IF Head(lines) # <<>> /\ Head(Head(lines)) = "#" THEN FirstVersionLine(Tail(lines))
    ELSE IF HasPrefix(Head(lines), k_VERSION) THEN Head(lines)
    ELSE FirstVersionLine(Tail(lines))

\* The version string of the file's first VERSION line, NULL without one.
FileVersion(file) ==
    IF file = NoFile \/ FirstVersionLine(file) = <<>> THEN NULL
    ELSE copy_idline_str(FirstVersionLine(file))

\* device_ids_version_unchanged(cmd): the file can be opened, has a VERSION
\* line, and that line's version equals _devices_file_version.
device_ids_version_unchanged(file, version) ==
    /\ file # NoFile
    /\ FirstVersionLine(file) # <<>>
    /\ copy_idline_str(FirstVersionLine(file)) = version

\* df_counter as device_ids_write computes it from _devices_file_version.
DfCounter(version) == IF version = <<>> THEN 0 ELSE sscanf_version(version).counter

\* A mutant of VersionRefused: only an unparsable version is refused.
VersionRefusedUnparsedOnly(version) ==
    version # <<>> /\ sscanf_version(version).n # 3

\* device_ids_write refuses a version it cannot parse or with a larger major.
VersionRefused(version) ==
    /\ version # <<>>
    /\ \/ sscanf_version(version).n # 3
       \/ sscanf_version(version).major > DEVICES_FILE_MAJOR

\* Is this the pvcreate/vgcreate that may create the system devices file?
ImplicitCreate(cmd, file_exists) ==
    /\ cmd.pending_devices_file /\ cmd.create_edit_devices_file
    /\ ~cmd.devicesfile /\ ~file_exists /\ cmd.name_create

\* A mutant of WriteGate: existing VGs do not stop the creation.
WriteGateCreating(cmd, version, file_exists, vgs_seen) ==
    IF ~cmd.enable_devices_file /\ ~cmd.pending_devices_file THEN "skip"
    ELSE IF cmd.test_mode THEN "test"
    ELSE IF VersionRefused(version) THEN "refuse"
    ELSE "write"

\* The part of device_ids_write before the temp file is touched:
\* "skip" (feature off, return 1), "nocreate" (existing VGs seen: free the
\* entries, return 1), "test" (test mode, return 1), "refuse" (version
\* refused, return 0), or "write".
WriteGate(cmd, version, file_exists, vgs_seen) ==
    IF ~cmd.enable_devices_file /\ ~cmd.pending_devices_file THEN "skip"
    ELSE IF ImplicitCreate(cmd, file_exists) /\ vgs_seen THEN "nocreate"
    ELSE IF cmd.test_mode THEN "test"
    ELSE IF VersionRefused(version) THEN "refuse"
    ELSE "write"

\* cmd after the gate: an implicit creation enables the devices file.
CmdAfterGate(cmd, file_exists, vgs_seen) ==
    IF cmd.enable_devices_file \/ cmd.pending_devices_file
    THEN IF ImplicitCreate(cmd, file_exists) /\ ~vgs_seen
         THEN [cmd EXCEPT !.enable_devices_file = TRUE] ELSE cmd
    ELSE cmd

\* _devices_file_version after the header is printed.
VersionAfterWrite(version) == copy_idline_str(VersionBuf(DfCounter(version)))

\* device_ids_write(cmd) with no system call failing: the return value, cmd,
\* _devices_file_version, the file and the registry afterwards.  vgs_seen is
\* lvmcache_vg_info_count() != 0.
device_ids_write(c, ver, file, dus, vgs_seen) ==
    LET gate == WriteGate(c, ver, file # NoFile, vgs_seen)
    IN  [ret     |-> gate # "refuse",
         cmd     |-> CmdAfterGate(c, file # NoFile, vgs_seen),
         version |-> IF gate = "write" THEN VersionAfterWrite(ver) ELSE ver,
         file    |-> IF gate = "write" THEN FileText(c.system_id, DfCounter(ver), dus)
                     ELSE file,
         dus     |-> IF gate = "nocreate" THEN <<>> ELSE dus]

\* What the temp file holds after fflush/fclose: the whole text, or only its
\* first cut lines when the flush fails.
FlushedText(text, ok, cut) == IF ok THEN text ELSE SubSeq(text, 1, cut)

\* Where a failed flush may cut the text: nothing written, or all but the
\* last line.
FlushCuts(text) == {0, Len(text) - 1}

----------------------------------------------------------------------------
(* State                                                                   *)

VARIABLES
    \* One command working on its registry (specification Spec)
    cmd,          \* its struct cmd_context
    use_devices,  \* cmd->use_devices, a sequence of use-entries
    devst,        \* per device: flags, scanned pvid, cached ids, active id
    version,      \* _devices_file_version
    lock,         \* _devices_file_locked, _devices_fd, _using_devices_file
    disk,         \* the devices file, its temp file, the searched_devnames file
    host,         \* what is on the disks and what the other filters say
    out,          \* what the last operation returned
    \* Several commands sharing the devices file (specification SpecLock)
    proc,         \* per process: position, cmd, lock state, version, registry
    kl,           \* the kernel's flock table for the lock file, per process
    dk,           \* the devices file and its temp file
    nf,           \* how many system calls have failed so far
    \* Writing a registry and reading it back (specification SpecFile)
    rt,
    \* One call of one operation on given arguments (specification SpecOps)
    call

mainvars == <<cmd, use_devices, devst, version, lock, disk, host, out>>
lockvars == <<proc, kl, dk, nf>>
filevars == <<rt>>
opsvars == <<call, devtab>>
vars == <<mainvars, lockvars, filevars, opsvars>>

\* Values of the variables a specification does not use.
MainIdle == /\ cmd = BaseCmd /\ use_devices = <<>> /\ devst = <<>> /\ version = <<>>
            /\ lock = Unlocked /\ disk = <<>> /\ host = <<>> /\ out = <<>>
LockIdle == proc = <<>> /\ kl = <<>> /\ dk = <<>> /\ nf = 0
FileIdle == rt = <<>>
OpsIdle == call = <<>> /\ devtab = DevTabMain

----------------------------------------------------------------------------
(* Bounds                                                                  *)

\* Commands running at the same time.
NProcs == 2
\* Writes and best-effort updates one command attempts.
MaxOps == 2
\* System calls that fail in one run.
MaxFaults == 1

Procs == 1..NProcs

----------------------------------------------------------------------------
(* Files a command may find on disk                                        *)

l_version_111 == <<"V", "E", "R", "S", "I", "O", "N", "=", "1", ".", "1", ".", "1", "\n">>
l_version_211 == <<"V", "E", "R", "S", "I", "O", "N", "=", "2", ".", "1", ".", "1", "\n">>
l_version_1x  == <<"V", "E", "R", "S", "I", "O", "N", "=", "1", ".", "x", "\n">>
l_systemid    == k_SYSTEMID \o <<"=">> \o s_hostA \o <<"\n">>

du_sdb_p1 == NewDu(DEV_ID_TYPE_DEVNAME, n_sdb, n_sdb, pv_1, 0, 0)

\* A file written by this implementation, one by a newer major version, one
\* with a damaged version line, one edited by hand without a version line.
File_111   == CommentLines \o <<l_systemid, l_version_111, EntryLine(du_sdb_p1)>>
File_211   == CommentLines \o <<l_systemid, l_version_211, EntryLine(du_sdb_p1)>>
File_1x    == CommentLines \o <<l_systemid, l_version_1x, EntryLine(du_sdb_p1)>>
File_nover == <<EntryLine(du_sdb_p1)>>

InitialFiles == {File_111, File_211, File_1x, File_nover}

----------------------------------------------------------------------------
(* Specification SpecLock: commands sharing one devices file.               *)
(*                                                                         *)
(* An editing command locks exclusive, reads, edits and writes, unlocks.    *)
(* Any other command locks shared, reads, unlocks, and after validation     *)
(* may try the best-effort update.  Every system call of device_ids_write   *)
(* is a step of its own, and a command can crash between any two steps.     *)

LockProfiles == <<
    [kind |-> "read", cmd |-> BaseCmd],
    [kind |-> "edit", cmd |-> BaseCmd],
    [kind |-> "read", cmd |-> [BaseCmd EXCEPT !.ignorelockingfailure = TRUE]],
    [kind |-> "edit", cmd |-> [BaseCmd EXCEPT !.nolocking = TRUE]],
    [kind |-> "read", cmd |-> [BaseCmd EXCEPT !.test_mode = TRUE]]>>

NewProc(profile) ==
    [kind |-> profile.kind, cmd |-> profile.cmd, pc |-> "start", lk |-> Unlocked,
     ver |-> <<>>, dus |-> <<>>, ops |-> 0, held |-> FALSE, wret |-> TRUE,
     after |-> "work", buf |-> <<>>,
     \* history: the mode of the last lock call that returned success and
     \* has not been followed by an unlock call; the version line that was
     \* on disk when this command last read or replaced the file
     granted |-> NOLOCK, known |-> NULL]

\* The processes are interchangeable: their profiles are taken in order.
InitLock ==
    /\ \E pick \in [Procs -> DOMAIN LockProfiles] :
        /\ \A p, q \in Procs : p < q => pick[p] <= pick[q]
        /\ proc = [p \in Procs |-> NewProc(LockProfiles[pick[p]])]
    /\ kl = [p \in Procs |-> NOLOCK]
    /\ dk \in {[file |-> f, tmp |-> NoTmp] : f \in InitialFiles}
    /\ nf = 0
    /\ MainIdle /\ FileIdle /\ OpsIdle

OthersLocks(p) == {kl[q] : q \in Procs \ {p}}

SysResults == {"ok", "open_fail", "flock_fail"}

\* A failing system call: at most MaxFaults of them in a run.
Fault(failed) ==
    /\ failed => nf < MaxFaults
    /\ nf' = IF failed THEN nf + 1 ELSE nf

\* flock succeeds only when the lock is compatible with the locks of the
\* other processes.  A blocking call then waits; a nonblocking call fails
\* with EWOULDBLOCK, which is no fault of the system.  Any call may fail by
\* a fault (the lock file cannot be opened, the wait is interrupted).
Busy(p, mode) == ~FlockCompatible(mode, OthersLocks(p))

LockCall(p, mode, nonblock, sys) ==
    /\ sys = "ok" => ~Busy(p, mode)
    /\ Fault(sys # "ok" /\ ~(sys = "flock_fail" /\ nonblock /\ Busy(p, mode)))

\* The first lock of a command: lock_devices_file(cmd, LOCK_EX) for an
\* editing command, lock_devices_file(cmd, LOCK_SH) for the others.  A
\* failure ends the command.
LockInitial(p) ==
    /\ proc[p].pc = "start"
    /\ \E sys \in SysResults :
        LET mode == IF proc[p].kind = "edit" THEN LOCK_EX ELSE LOCK_SH
            r    == lock_devices_file_(proc[p].cmd, proc[p].lk, mode, sys)
        IN  /\ LockCall(p, mode, FALSE, sys)
            /\ proc' = [proc EXCEPT ![p] = [@ EXCEPT
                          !.pc = IF r.ret THEN "read" ELSE "done",
                          !.lk = r.st,
                          !.granted = IF r.ret THEN mode ELSE @]]
            /\ kl' = IF r.flocked THEN [kl EXCEPT ![p] = mode] ELSE kl
    /\ UNCHANGED dk

\* device_ids_read(cmd): fills the empty registry from the file.
ReadFile(p) ==
    /\ proc[p].pc = "read"
    /\ LET r == ReadLines(dk.file, [dus |-> <<>>, systemid |-> <<>>, version |-> proc[p].ver])
           next == IF proc[p].kind = "edit" THEN "work" ELSE "unlock"
       IN  proc' = [proc EXCEPT ![p] =
                IF ~@.cmd.enable_devices_file \/ @.dus # <<>> THEN [@ EXCEPT !.pc = next]
                ELSE IF dk.file = NoFile THEN [@ EXCEPT !.pc = "unlock_exit"]
                ELSE [@ EXCEPT !.pc = next, !.dus = r.dus, !.ver = r.version,
                               !.known = FileVersion(dk.file)]]
    /\ UNCHANGED <<kl, dk, nf>>

\* unlock_devices_file(cmd) after the read (or when the command gives up).
UnlockAfterRead(p) ==
    /\ proc[p].pc \in {"unlock", "unlock_exit"}
    /\ proc' = [proc EXCEPT ![p] = [@ EXCEPT
                  !.pc = IF @ = "unlock" THEN "work" ELSE "done",
                  !.lk = unlock_devices_file(proc[p].cmd, @),
                  !.granted = NOLOCK]]
    /\ kl' = IF UnlockActs(proc[p].cmd, proc[p].lk) THEN [kl EXCEPT ![p] = NOLOCK] ELSE kl
    /\ UNCHANGED <<dk, nf>>

\* The pvid a command's edit leaves in the registry (the edit stands for
\* what validation or an add changes).
PvOf(p) == <<"P", Digits[p + 1]>>

EditedDus(dus, p) ==
    IF dus = <<>> THEN <<NewDu(DEV_ID_TYPE_DEVNAME, n_sdb, n_sdb, PvOf(p), 0, 0)>>
    ELSE [dus EXCEPT ![1].pvid = PvOf(p)]

\* Validation changed an entry: _device_ids_update_try begins.
StartUpdateTry(p) ==
    /\ proc[p].pc = "work"
    /\ proc[p].ops < MaxOps
    /\ proc' = [proc EXCEPT ![p] = [@ EXCEPT
                  !.pc = IF proc[p].cmd.expect_missing_vg_device THEN "work" ELSE "ut_lock",
                  !.dus = EditedDus(@, p), !.ops = @ + 1, !.held = FALSE]]
    /\ UNCHANGED <<kl, dk, nf>>

\* An editing command changed an entry and calls device_ids_write.
StartWrite(p) ==
    /\ proc[p].pc = "work"
    /\ proc[p].kind = "edit"
    /\ proc[p].ops < MaxOps
    /\ proc' = [proc EXCEPT ![p] = [@ EXCEPT
                  !.pc = "w_begin", !.after = "work",
                  !.dus = EditedDus(@, p), !.ops = @ + 1]]
    /\ UNCHANGED <<kl, dk, nf>>

\* A mutant of AfterTryLock: the update goes on whatever the try-lock
\* returned.
AfterTryLockAlways(ret) == "ut_check"

\* Where _device_ids_update_try goes after its try-lock: to the version
\* check, or past it when the lock call failed ("busy").
AfterTryLock(ret) == IF ret THEN "ut_check" ELSE "ut_unlock"

\* lock_devices_file_try(cmd, LOCK_EX, &held) in _device_ids_update_try.
TryLock(p) ==
    /\ proc[p].pc = "ut_lock"
    /\ \E sys \in SysResults :
        LET r == lock_devices_file_(proc[p].cmd, proc[p].lk, LOCK_EX, sys)
        IN  /\ LockCall(p, LOCK_EX, TRUE, sys)
            /\ proc' = [proc EXCEPT ![p] = [@ EXCEPT
                          !.pc = AfterTryLock(r.ret),
                          !.lk = r.st, !.held = r.held,
                          !.granted = IF r.ret THEN LOCK_EX ELSE @]]
            /\ kl' = IF r.flocked THEN [kl EXCEPT ![p] = LOCK_EX] ELSE kl
    /\ UNCHANGED dk

\* device_ids_version_unchanged(cmd) in _device_ids_update_try.
CheckVersion(p) ==
    /\ proc[p].pc = "ut_check"
    /\ proc' = [proc EXCEPT ![p] = [@ EXCEPT
                  !.pc = IF device_ids_version_unchanged(dk.file, proc[p].ver)
                         THEN "w_begin" ELSE "ut_unlock",
                  !.after = "ut_unlock"]]
    /\ UNCHANGED <<kl, dk, nf>>

\* The end of _device_ids_update_try: unlock unless the lock was held before.
UnlockAfterTry(p) ==
    /\ proc[p].pc = "ut_unlock"
    /\ proc' = [proc EXCEPT ![p] = [@ EXCEPT
                  !.pc = "work",
                  !.lk = IF proc[p].held THEN @ ELSE unlock_devices_file(proc[p].cmd, @),
                  !.granted = IF proc[p].held THEN @ ELSE NOLOCK]]
    /\ kl' = IF ~proc[p].held /\ UnlockActs(proc[p].cmd, proc[p].lk)
             THEN [kl EXCEPT ![p] = NOLOCK] ELSE kl
    /\ UNCHANGED <<dk, nf>>

\* devices_file_exit(cmd) at the end of the command.
Finish(p) ==
    /\ proc[p].pc = "work"
    /\ proc' = [proc EXCEPT ![p] = [NewProc([kind |-> @.kind, cmd |-> @.cmd]) EXCEPT
                  !.pc = "done",
                  !.lk = IF proc[p].lk.fd THEN unlock_devices_file(proc[p].cmd, proc[p].lk)
                         ELSE proc[p].lk]]
    /\ kl' = IF proc[p].lk.fd /\ UnlockActs(proc[p].cmd, proc[p].lk)
             THEN [kl EXCEPT ![p] = NOLOCK] ELSE kl
    /\ UNCHANGED <<dk, nf>>

\* device_ids_write up to the open of the temp file and of the directory:
\* the gate, unlink(tmppath), fopen(tmppath, "w+"), open(dirpath).
WriteSysResults == {"ok", "fopen_fail", "opendir_fail"}

WriteBegin(p) ==
    /\ proc[p].pc = "w_begin"
    /\ LET me   == proc[p]
           gate == WriteGate(me.cmd, me.ver, dk.file # NoFile, FALSE)
       IN  IF gate # "write"
           THEN /\ proc' = [proc EXCEPT ![p] = [@ EXCEPT
                              !.pc = me.after, !.wret = (gate # "refuse")]]
                /\ UNCHANGED <<dk, nf>>
           ELSE \E sys \in WriteSysResults :
                /\ Fault(sys # "ok")
                /\ proc' = [proc EXCEPT ![p] = [@ EXCEPT
                              !.pc = IF sys = "ok" THEN "w_print" ELSE me.after,
                              !.wret = (sys = "ok")]]
                /\ dk' = [dk EXCEPT !.tmp = IF sys = "fopen_fail" THEN NoTmp
                                            ELSE [owner |-> p, text |-> <<>>]]
    /\ UNCHANGED kl

\* The fprintf calls (into the stream's buffer) and the update of
\* _devices_file_version.
WritePrint(p) ==
    /\ proc[p].pc = "w_print"
    /\ proc' = [proc EXCEPT ![p] = [@ EXCEPT
                  !.pc = "w_flush",
                  !.buf = FileText(proc[p].cmd.system_id, DfCounter(proc[p].ver), proc[p].dus),
                  !.ver = VersionAfterWrite(@)]]
    /\ UNCHANGED <<kl, dk, nf>>

\* fflush and fclose; their failure is logged and nothing else.  The stream
\* writes to the file it created, which another writer may have unlinked.
WriteFlush(p) ==
    /\ proc[p].pc = "w_flush"
    /\ \E ok \in BOOLEAN : \E cut \in FlushCuts(proc[p].buf) :
        /\ ok => cut = 0
        /\ Fault(~ok)
        /\ dk' = IF dk.tmp.owner = p
                 THEN [dk EXCEPT !.tmp.text = FlushedText(proc[p].buf, ok, cut)]
                 ELSE dk
    /\ proc' = [proc EXCEPT ![p] = [@ EXCEPT !.pc = "w_rename"]]
    /\ UNCHANGED kl

\* rename(tmppath, devices_file_path).
WriteRename(p) ==
    /\ proc[p].pc = "w_rename"
    /\ \E ok \in BOOLEAN :
        /\ ok => dk.tmp.owner # 0
        /\ Fault(~ok /\ dk.tmp.owner # 0)
        /\ dk' = IF ok THEN [file |-> dk.tmp.text, tmp |-> NoTmp] ELSE dk
        /\ proc' = [proc EXCEPT ![p] = [@ EXCEPT
                      !.pc = "w_fsync", !.wret = ok,
                      !.known = IF ok THEN FileVersion(dk.tmp.text) ELSE @]]
    /\ UNCHANGED kl

\* fsync(dir_fd), close(dir_fd), return ret; a failure of fsync is logged
\* and nothing else.
WriteFsync(p) ==
    /\ proc[p].pc = "w_fsync"
    /\ \E ok \in BOOLEAN : Fault(~ok)
    /\ proc' = [proc EXCEPT ![p] = [@ EXCEPT !.pc = proc[p].after, !.buf = <<>>]]
    /\ UNCHANGED <<kl, dk>>

InWrite(p) == proc[p].pc \in {"w_begin", "w_print", "w_flush", "w_rename", "w_fsync"}

\* The process dies inside device_ids_write; the kernel drops its flock.
Crash(p) ==
    /\ InWrite(p)
    /\ proc' = [proc EXCEPT ![p] = [NewProc([kind |-> @.kind, cmd |-> @.cmd]) EXCEPT
                  !.pc = "crashed"]]
    /\ kl' = [kl EXCEPT ![p] = NOLOCK]
    /\ UNCHANGED <<dk, nf>>

NextLock ==
    /\ \E p \in Procs :
        \/ LockInitial(p)
        \/ ReadFile(p)
        \/ UnlockAfterRead(p)
        \/ StartUpdateTry(p)
        \/ StartWrite(p)
        \/ TryLock(p)
        \/ CheckVersion(p)
        \/ UnlockAfterTry(p)
        \/ Finish(p)
        \/ WriteBegin(p)
        \/ WritePrint(p)
        \/ WriteFlush(p)
        \/ WriteRename(p)
        \/ WriteFsync(p)
        \/ Crash(p)
    /\ UNCHANGED <<mainvars, filevars, opsvars>>

SpecLock == InitLock /\ [][NextLock]_vars

----------------------------------------------------------------------------
(* Properties of the shared devices file                                    *)

\* A command for which a successful return of the lock call means that the
\* flock is held.
Strict(p) ==
    /\ ~proc[p].cmd.nolocking
    /\ ~proc[p].cmd.sysinit
    /\ ~proc[p].cmd.ignorelockingfailure

AllStrict == \A p \in Procs : Strict(p)

\* The step in which p's rename replaces the devices file.
RenameOk(p) ==
    /\ proc[p].pc = "w_rename"
    /\ proc'[p].pc = "w_fsync"
    /\ proc'[p].wret

\* The counter of a version string, 0 when there is none.
VerCounter(v) == IF v = NULL \/ v = <<>> THEN 0 ELSE DfCounter(v)

\* C3 as stated. Lock exclusion: no two processes both have a successful,
\* not yet unlocked LOCK_EX, and no process has a successful LOCK_EX while
\* another has a successful, unreleased LOCK_SH.
C3_LockExclusion ==
    \A p, q \in Procs :
        p # q => ~(proc[p].granted = LOCK_EX /\ proc[q].granted \in {LOCK_EX, LOCK_SH})

\* C3 amended. Lock exclusion among the commands that run with locking
\* enabled and with neither sysinit nor ignorelockingfailure: no two of
\* them both have a successful, not yet unlocked LOCK_EX, and none has a
\* successful LOCK_EX while another has a successful, unreleased LOCK_SH.
C3_LockExclusionEnforced ==
    \A p, q \in Procs :
        (p # q /\ Strict(p) /\ Strict(q))
            => ~(proc[p].granted = LOCK_EX /\ proc[q].granted \in {LOCK_EX, LOCK_SH})

\* One command holds the exclusive lock and the try-lock of another has
\* just returned failure.
C3_Witness ==
    \E p, q \in Procs :
        /\ p # q /\ Strict(p) /\ Strict(q)
        /\ proc[p].granted = LOCK_EX /\ kl[p] = LOCK_EX
        /\ proc[q].pc = "ut_unlock" /\ proc[q].granted = NOLOCK /\ proc[q].ops > 0

\* C4. No stale best-effort write: a command that read the file at version
\* V under a shared lock replaces the file in its validation update only if
\* the VERSION line on disk is still V (V being the version it last read,
\* or last installed itself).
C4_NoStaleBestEffortWrite ==
    [][AllStrict =>
        \A p \in Procs :
            (proc[p].kind = "read" /\ RenameOk(p))
                => FileVersion(dk.file) = proc[p].known]_vars

\* C5. Write atomicity: every step of device_ids_write leaves at the final
\* path the complete previous content or the complete new content, so that
\* a crash after any step finds one of the two.
C5_WriteAtomicity ==
    [][AllStrict =>
        \A p \in Procs :
            (InWrite(p) /\ proc'[p] # proc[p])
                => dk'.file \in {dk.file, proc[p].buf}]_vars

\* C6. Monotonic version: a write that succeeds writes the counter last
\* read from the file plus one (1 when the file had no version), the counter
\* on disk strictly increases with every successful write of commands that
\* follow the lock protocol, and after the write the version in memory is
\* the version just written.
C6_MonotonicVersion ==
    [][AllStrict =>
        \A p \in Procs :
            RenameOk(p) =>
                /\ VerCounter(FileVersion(proc[p].buf)) = VerCounter(proc[p].known) + 1
                /\ VerCounter(FileVersion(dk'.file)) > VerCounter(FileVersion(dk.file))
                /\ proc'[p].ver = FileVersion(dk'.file)]_vars

\* The versions the claim says are refused: not empty, and not three
\* unsigned integers or with a major above the supported one.
C7_Refusable(v) ==
    /\ v # <<>>
    /\ \/ sscanf_version(v).n # 3
       \/ sscanf_version(v).major > DEVICES_FILE_MAJOR

\* The step in which device_ids_write, called by p, returns at its gate.
C7_GateStep(p) == proc[p].pc = "w_begin" /\ proc'[p].pc # "w_begin" /\ proc'[p].pc # "crashed"

\* The step in which p reads a file whose version is refused.
C7_ReadStep(p) ==
    /\ proc[p].pc = "read" /\ proc'[p].pc # "read"
    /\ dk.file # NoFile /\ FileVersion(dk.file) # NULL
    /\ C7_Refusable(FileVersion(dk.file))

\* The lines of a file that begin an entry.
C7_EntryLines(file) == {i \in DOMAIN file : HasPrefix(file[i], k_IDTYPE)}

\* C7 as stated. Version refusal: with a version that is not empty and does
\* not parse or has a larger major, device_ids_write returns failure
\* without creating the temp file or changing the devices file; reading
\* such a file still loads its entries.
C7_VersionRefusal ==
    [][\A p \in Procs :
        /\ (C7_GateStep(p) /\ C7_Refusable(proc[p].ver))
              => (~proc'[p].wret /\ dk' = dk)
        /\ C7_ReadStep(p)
              => Len(proc'[p].dus) = Cardinality(C7_EntryLines(dk.file))]_vars

\* C7 amended. Version refusal: with such a version device_ids_write
\* creates no temp file and leaves the devices file alone, and returns
\* failure unless the command runs in test mode, where it returns success
\* before the version is looked at; reading such a file still loads its
\* entries.
C7_VersionRefusalOutsideTestMode ==
    [][\A p \in Procs :
        /\ (C7_GateStep(p) /\ C7_Refusable(proc[p].ver))
              => /\ dk' = dk
                 /\ proc'[p].wret = proc[p].cmd.test_mode
        /\ C7_ReadStep(p)
              => Len(proc'[p].dus) = Cardinality(C7_EntryLines(dk.file))]_vars

\* A command that loaded the entries of a file with a larger major has had
\* its write refused.
C7_Witness ==
    \E p \in Procs :
        /\ proc[p].pc \in {"work", "ut_unlock"} /\ proc[p].ops > 0
        /\ ~proc[p].cmd.test_mode /\ ~proc[p].wret
        /\ C7_Refusable(proc[p].ver) /\ sscanf_version(proc[p].ver).n = 3
        /\ proc[p].dus # <<>>
        /\ dk.tmp = NoTmp /\ dk.file = File_211

----------------------------------------------------------------------------
(* Specification SpecFile: a registry is written with device_ids_write and  *)
(* the file is read with device_ids_read into an empty registry; or a file  *)
(* edited by hand is read.                                                  *)

\* The longest registry written.
MaxEntries == 2

RtIdnames  == {NULL, n_wwid, n_sdb, n_dotx}
RtDevnames == {NULL, n_sda, n_sdb, n_rel}
RtPvids    == {NULL, pv_1}
RtParts    == {0, 1}
\* Unmatched, or matched to /dev/sda.
RtDevs     == {0, 1}

RtEntries ==
    {NewDu(t, i, d, v, n, m) :
        t \in IdTypes, i \in RtIdnames, d \in RtDevnames, v \in RtPvids,
        n \in RtParts, m \in RtDevs}

\* The entries that follow the first one in a longer registry.
RtTail == <<NewDu(DEV_ID_TYPE_DEVNAME, n_sdc, n_sdc, pv_2, 0, 0),
            NewDu(DEV_ID_TYPE_SYS_SERIAL, n_dotx, NULL, NULL, 2, 0)>>

RtRegistries ==
    {<<>>} \cup {<<e>> \o SubSeq(RtTail, 1, k) : e \in RtEntries, k \in 0..(MaxEntries - 1)}

\* Entry lines as an administrator may leave them.
l_hand_dot   == s_eq_IDTYPE \o s_sys_wwid \o s_sp_IDNAME \o n_dot
                \o s_sp_DEVNAME \o n_dot \o s_sp_PVID \o n_dot \o s_sp_PART \o n_dot \o <<"\n">>
l_hand_dotx  == s_eq_IDTYPE \o s_sys_wwid \o s_sp_IDNAME \o n_dotx
                \o s_sp_DEVNAME \o n_dotx \o s_sp_PVID \o n_dotx \o <<"\n">>
l_hand_plain == s_eq_IDTYPE \o s_sys_wwid \o s_sp_IDNAME \o n_wwid
                \o s_sp_DEVNAME \o n_sda \o s_sp_PVID \o pv_1 \o s_sp_PART \o <<"1">> \o <<"\n">>

HandFiles == {<<l_version_111, l>> : l \in {l_hand_dot, l_hand_dotx, l_hand_plain}}

InitFile ==
    /\ \/ \E R \in RtRegistries :
            rt = [pc |-> "registry", R |-> R, file |-> NoFile, ver |-> <<>>, out |-> <<>>]
       \/ \E f \in HandFiles :
            rt = [pc |-> "file", R |-> <<>>, file |-> f, ver |-> <<>>, out |-> <<>>]
    /\ MainIdle /\ LockIdle /\ OpsIdle

\* device_ids_write(cmd) of the registry, no system call failing.
RtWrite ==
    /\ rt.pc = "registry"
    /\ WriteGate(BaseCmd, rt.ver, rt.file # NoFile, FALSE) = "write"
    /\ rt' = [rt EXCEPT !.pc = "file",
                        !.file = FlushedText(FileText(BaseCmd.system_id, DfCounter(rt.ver), rt.R),
                                             TRUE, 0),
                        !.ver = VersionAfterWrite(rt.ver)]
    /\ UNCHANGED <<mainvars, lockvars, opsvars>>

\* device_ids_read(cmd) into an empty registry.
RtRead ==
    /\ rt.pc = "file"
    /\ LET r == ReadLines(rt.file, [dus |-> <<>>, systemid |-> <<>>, version |-> <<>>])
       IN  rt' = [rt EXCEPT !.pc = "read", !.out = r.dus, !.ver = r.version]
    /\ UNCHANGED <<mainvars, lockvars, opsvars>>

NextFile == RtWrite \/ RtRead

SpecFile == InitFile /\ [][NextFile]_vars

\* Two entries agree in idtype, idname, devname, pvid and part.
SameFields(a, b) ==
    /\ a.idtype = b.idtype /\ a.idname = b.idname /\ a.devname = b.devname
    /\ a.pvid = b.pvid /\ a.part = b.part

\* A registry as matching and validation leave it: a devname is an absolute
\* path, and a matched entry's devname is the name of its device.
Settled(R) ==
    \A i \in 1..Len(R) :
        /\ R[i].devname # NULL => Head(R[i].devname) = "/"
        /\ R[i].dev # 0 => R[i].devname = dev_name(R[i].dev)

\* C8. Round-trip: writing a registry with device_ids_write and reading the
\* result with device_ids_read into an empty registry yields the same
\* sequence of entries with the same idtype, idname, devname, pvid and part
\* (stated here for the registries whose devnames are settled).
C8_RoundTrip ==
    (rt.pc = "read" /\ rt.R # <<>> /\ Settled(rt.R))
        => /\ Len(rt.out) = Len(rt.R)
           /\ \A i \in 1..Len(rt.R) : SameFields(rt.out[i], rt.R[i])

\* The serialised value of a field of an entry line, <<>> without the key.
RawField(line, key) ==
    IF strstr(line, key) = 0 THEN <<>>
    ELSE copy_idline_str(From(line, strstr(line, key)))

\* What the claim says a serialised value is read as.
AsMarked(raw) == IF raw = n_dot \/ raw = <<>> THEN NULL ELSE raw

\* C9. Absent marker: a field of an entry line is read as absent exactly
\* when its serialised value is the single character '.'; a value that
\* merely begins with a dot is kept as that literal string.
C9_AbsentMarker ==
    (rt.pc = "read" /\ rt.out # <<>>)
        => LET line == rt.file[Len(rt.file)]
               du   == rt.out[Len(rt.out)]
           IN  /\ du.idname = AsMarked(RawField(line, k_IDNAME))
               /\ du.devname = AsMarked(RawField(line, k_DEVNAME))
               /\ du.pvid = AsMarked(RawField(line, k_PVID))
               /\ (du.part = 0) = (AsMarked(RawField(line, k_PART)) = NULL)

----------------------------------------------------------------------------
(* One command and its registry: the devices (struct device), the filters,  *)
(* and the pairing of entries with devices.                                 *)

\* A dev->ids slot that has not been filled, as opposed to a slot that holds
\* NULL (the device has no identifier of that kind).
UNSET == <<"UNSET">>

\* struct device as the registry code uses it: DEV_MATCHED_USE_ID and
\* DEV_SCAN_NOT_READ of dev->flags, dev->pvid (<<>> when empty), dev->ids as
\* a slot per kind, dev->id as the kind of the slot it points to, the
\* persistent filter's verdict ("unset" after a wipe; "fail" is a nonzero
\* dev->filtered_flags), and whether the last label scan listed the device.
NewDev ==
    [matched |-> FALSE, not_read |-> FALSE, pvid |-> <<>>,
     ids |-> [t \in IdTypes |-> UNSET], id |-> DEV_ID_TYPE_NONE,
     filt |-> "unset", scanned |-> FALSE]

\* The filters that read no data and are named in the rename search:
\* sysfs, type, usable, mpath.
PassesNodataFilters(h, d) == h[d].excl # "nodata"

\* The filters that use the data read: partitioned, signature, md, fwraid.
PassesDataFilters(h, d) == h[d].excl # "data"

\* filter-deviceid: a device passes when it is paired with an entry.
PassesDeviceidFilter(ds, d) == ds[d].matched

\* The command's whole filter chain, the configured regex filter included.
PassesAllFilters(h, ds, d) == h[d].excl = "none" /\ PassesDeviceidFilter(ds, d)

\* passes_filter(cmd, cmd->filter, dev, "persistent"): the saved verdict,
\* else the chain's verdict, which is then saved.
PersistentPasses(h, ds, d) ==
    IF ds[d].filt = "unset" THEN PassesAllFilters(h, ds, d) ELSE ds[d].filt = "pass"

PersistentSaved(h, ds, d) ==
    [ds EXCEPT ![d].filt = IF PersistentPasses(h, ds, d) THEN "pass" ELSE "fail"]

get_du_for_dev(dus, d) ==
    IF \E i \in DOMAIN dus : dus[i].dev = d
    THEN CHOOSE i \in DOMAIN dus : dus[i].dev = d /\ \A j \in 1..(i - 1) : dus[j].dev # d
    ELSE 0

get_du_for_pvid(dus, pvid) ==
    IF \E i \in DOMAIN dus : dus[i].pvid = pvid
    THEN CHOOSE i \in DOMAIN dus :
            dus[i].pvid = pvid /\ \A j \in 1..(i - 1) : dus[j].pvid # pvid
    ELSE 0

get_du_for_devname(dus, devname) ==
    IF \E i \in DOMAIN dus : dus[i].devname = devname
    THEN CHOOSE i \in DOMAIN dus :
            dus[i].devname = devname /\ \A j \in 1..(i - 1) : dus[j].devname # devname
    ELSE 0

get_du_for_device_id(dus, idtype, idname) ==
    LET Is(i) == dus[i].idname # NULL /\ dus[i].idtype = idtype /\ dus[i].idname = idname
    IN  IF \E i \in DOMAIN dus : Is(i)
        THEN CHOOSE i \in DOMAIN dus : Is(i) /\ \A j \in 1..(i - 1) : ~Is(j)
        ELSE 0

idtype_compatible_with_major_number(idtype, major) ==
    IF idtype = DEV_ID_TYPE_DEVNAME THEN TRUE
    ELSE IF idtype \in {DEV_ID_TYPE_MPATH_UUID, DEV_ID_TYPE_CRYPT_UUID, DEV_ID_TYPE_LVMLV_UUID}
    THEN major = MajorDm
    ELSE IF idtype = DEV_ID_TYPE_MD_UUID THEN major = MajorMd
    ELSE IF idtype = DEV_ID_TYPE_LOOP_FILE THEN major = MajorLoop
    ELSE IF major = MajorDm THEN FALSE
    ELSE IF major = MajorMd THEN FALSE
    ELSE IF major = MajorLoop THEN FALSE
    ELSE TRUE

\* _match_dm_devnames(cmd, dev, id, du); idname is id->idname.
match_dm_devnames(d, idname, du) ==
    IF DevTab[d].major # MajorDm THEN FALSE
    ELSE IF idname # NULL /\ du.idname # NULL /\ idname = du.idname THEN TRUE
    ELSE IF du.idname # NULL /\ du.idname = dev_name(d) THEN TRUE
    ELSE IF du.idname = NULL THEN FALSE
    ELSE IF HasPrefix(du.idname, s_prefix_dm) \/ HasPrefix(du.idname, s_prefix_mapper)
    THEN /\ stat_rdev(du.idname) # <<>>
         /\ stat_rdev(du.idname) = <<MajorDm, DevTab[d].minor>>
    ELSE FALSE

\* The links a match sets up: du->dev, dev->id, DEV_MATCHED_USE_ID.
Linked(S, i, d, idtype) ==
    [S EXCEPT !.dus[i].dev = d, !.ds[d].id = idtype, !.ds[d].matched = TRUE]

\* _match_du_to_dev(cmd, du, dev) for entry i and device d, on the registry
\* and devices S = [dus, ds]: the result and S afterwards (the identifier
\* read from the system is saved in dev->ids whether or not it matches).
match_du_to_dev(S, i, d) ==
    LET du  == S.dus[i]
        No  == [ret |-> FALSE, S |-> S]
        idn == S.ds[d].ids[du.idtype]
        sys == device_id_system_read(d, du.idtype)
        S1  == [S EXCEPT !.ds[d].ids[du.idtype] = sys]
    IN  IF du.idname = NULL \/ du.idtype = DEV_ID_TYPE_NONE THEN No
        ELSE IF ~idtype_compatible_with_major_number(du.idtype, DevTab[d].major) THEN No
        ELSE IF DevTab[d].part # du.part THEN No
        ELSE IF idn # UNSET
        THEN IF \/ du.idtype = DEV_ID_TYPE_DEVNAME /\ match_dm_devnames(d, idn, du)
                \/ idn # NULL /\ idn = du.idname
             THEN [ret |-> TRUE, S |-> Linked(S, i, d, du.idtype)]
             ELSE No
        ELSE IF sys = NULL THEN [ret |-> FALSE, S |-> S1]
        ELSE IF sys = du.idname THEN [ret |-> TRUE, S |-> Linked(S1, i, d, du.idtype)]
        ELSE [ret |-> FALSE, S |-> S1]

\* A mutant of match_reads: the identifier is read whatever is cached.
match_reads_uncached(S, i, d) ==
    /\ S.dus[i].idname # NULL /\ S.dus[i].idtype # DEV_ID_TYPE_NONE
    /\ idtype_compatible_with_major_number(S.dus[i].idtype, DevTab[d].major)
    /\ DevTab[d].part = S.dus[i].part

\* Does _match_du_to_dev(cmd, du, dev) call device_id_system_read?  It does
\* when the entry gets past the checks of kind, major and partition and
\* dev->ids holds nothing of the entry's kind.
match_reads(S, i, d) ==
    /\ S.dus[i].idname # NULL /\ S.dus[i].idtype # DEV_ID_TYPE_NONE
    /\ idtype_compatible_with_major_number(S.dus[i].idtype, DevTab[d].major)
    /\ DevTab[d].part = S.dus[i].part
    /\ S.ds[d].ids[S.dus[i].idtype] = UNSET

\* The loop of device_ids_match over all devices from device d on, for
\* entry i: devices already paired are skipped, the first match ends it.
RECURSIVE MatchAnyDev(_, _, _)
MatchAnyDev(S, i, d) ==
    IF d \notin Devs THEN S
    ELSE IF S.ds[d].matched THEN MatchAnyDev(S, i, d + 1)
    ELSE Bind(match_du_to_dev(S, i, d),
              LAMBDA r : IF r.ret THEN r.S ELSE MatchAnyDev(r.S, i, d + 1))

\* device_ids_match_device_list(cmd), from entry i on.
RECURSIVE device_ids_match_device_list(_, _)
device_ids_match_device_list(S, i) ==
    IF i > Len(S.dus) THEN S
    ELSE IF S.dus[i].dev # 0 THEN device_ids_match_device_list(S, i + 1)
    ELSE LET d == IF S.dus[i].devname = NULL THEN 0
                  ELSE dev_cache_get_existing(S.dus[i].devname)
         IN  Bind(IF d = 0 THEN S
                  ELSE [S EXCEPT !.dus[i].dev = d, !.ds[d].matched = TRUE],
                  LAMBDA S1 : device_ids_match_device_list(S1, i + 1))

\* The loop of device_ids_match over the entries, from entry i on.
RECURSIVE MatchEntries(_, _)
MatchEntries(S, i) ==
    IF i > Len(S.dus) THEN S
    ELSE IF S.dus[i].dev # 0 THEN MatchEntries(S, i + 1)
    ELSE LET du == S.dus[i]
             d  == IF du.devname = NULL THEN 0 ELSE dev_cache_get_existing(du.devname)
         IN  Bind(IF d # 0 THEN match_du_to_dev(S, i, d) ELSE [ret |-> FALSE, S |-> S],
                  LAMBDA r : IF r.ret THEN MatchEntries(r.S, i + 1)
                             ELSE Bind(MatchAnyDev(r.S, i, 1),
                                       LAMBDA S1 : MatchEntries(S1, i + 1)))

\* A mutant of device_ids_match: the entries no device was found for are
\* taken off the registry.
device_ids_match_pruned(c, S) ==
    IF ~c.enable_devices_file THEN S
    ELSE Bind(MatchEntries(S, 1),
              LAMBDA R : [R EXCEPT !.dus = SelectSeq(R.dus, LAMBDA du : du.dev # 0)])

\* device_ids_match(cmd).
device_ids_match(c, S) ==
    IF c.enable_devices_list THEN device_ids_match_device_list(S, 1)
    ELSE IF ~c.enable_devices_file THEN S
    ELSE MatchEntries(S, 1)

----------------------------------------------------------------------------
(* device_ids_validate                                                      *)

\* The scanned_devs argument: a NULL pointer, or a list of devices.
ScanList(null, devs) == [null |-> null, devs |-> devs]

dev_in_device_list(d, scanned) == scanned.null \/ d \in scanned.devs

\* A mutant of ValidatedPvid: the entry keeps the PVID the file gave it.
ValidatedPvidKept(du_pvid, dev_pvid) == du_pvid

\* A mutant of ValidatedPvid: a pvid that differs from the device's is
\* cleared, an absent one is set.
ValidatedPvidToggled(du_pvid, dev_pvid) ==
    IF du_pvid = NULL THEN (IF dev_pvid # <<>> THEN dev_pvid ELSE NULL)
    ELSE IF du_pvid # dev_pvid THEN NULL
    ELSE du_pvid

\* A mutant of ValidatedPvid: the pvid of an entry is never cleared.
ValidatedPvidNotCleared(du_pvid, dev_pvid) ==
    IF dev_pvid # <<>> THEN dev_pvid ELSE du_pvid

\* The PVID a checked entry of a stable kind is left with: the one read
\* from the device, or none when the device holds no PV.
ValidatedPvid(du_pvid, dev_pvid) ==
    IF dev_pvid # <<>>
    THEN IF du_pvid = NULL \/ du_pvid # dev_pvid THEN dev_pvid ELSE du_pvid
    ELSE IF du_pvid # NULL /\ (du_pvid = <<>> \/ Head(du_pvid) # ".") THEN NULL
    ELSE du_pvid

\* The skips both loops share: no device, a device that is not on the
\* scanned list, a device that could not be read.
ValidateSkips(V, i, scanned) ==
    \/ V.dus[i].dev = 0
    \/ ~dev_in_device_list(V.dus[i].dev, scanned)
    \/ V.ds[V.dus[i].dev].not_read

\* One pass of the first loop, for entry i: entries of the stable kinds.
\* V = [dus, ds, update_file, invalid, wrong, fixed].
ValidateStableEntry(c, h, V, scanned, i) ==
    LET du == V.dus[i]
        d  == du.dev
        pv == ValidatedPvid(du.pvid, V.ds[d].pvid)
        nm == IF c.ignore_device_name_mismatch THEN du.devname ELSE dev_name(d)
        ch == pv # du.pvid \/ nm # du.devname
    IN  IF ValidateSkips(V, i, scanned) \/ du.idtype = DEV_ID_TYPE_DEVNAME THEN V
        ELSE IF ~PersistentPasses(h, V.ds, d)
        THEN [V EXCEPT !.ds = PersistentSaved(h, V.ds, d)]
        ELSE [V EXCEPT !.ds = PersistentSaved(h, V.ds, d),
                       !.dus[i].pvid = pv, !.dus[i].devname = nm,
                       !.update_file = @ \/ ch, !.invalid = @ \/ ch,
                       !.fixed = IF pv # du.pvid THEN @ \cup {i} ELSE @]

\* The first loop, from entry i on.
RECURSIVE ValidateStable(_, _, _, _, _)
ValidateStable(c, h, V, scanned, i) ==
    IF i > Len(V.dus) THEN V
    ELSE Bind(ValidateStableEntry(c, h, V, scanned, i),
              LAMBDA V1 : ValidateStable(c, h, V1, scanned, i + 1))

\* One pass of the second loop, for entry i: entries of the devname kind.
ValidateDevnameEntry(c, h, V, scanned, i) ==
    LET du == V.dus[i]
        d  == du.dev
        V1 == [V EXCEPT !.ds = PersistentSaved(h, V.ds, d)]
    IN  IF ValidateSkips(V, i, scanned) \/ du.idtype # DEV_ID_TYPE_DEVNAME THEN V
        ELSE IF ~PersistentPasses(h, V.ds, d) THEN V1
        ELSE IF du.pvid = NULL \/ (du.pvid # <<>> /\ Head(du.pvid) = ".") THEN V1
        ELSE IF V.ds[d].pvid # <<>> /\ V.ds[d].pvid = du.pvid
        THEN IF dev_name(d) # du.idname THEN [V1 EXCEPT !.invalid = TRUE]
             ELSE IF du.devname = NULL \/ du.devname # dev_name(d)
             THEN [V1 EXCEPT !.dus[i].devname = dev_name(d),
                             !.update_file = TRUE, !.invalid = TRUE]
             ELSE V1
        ELSE [V1 EXCEPT !.wrong = Append(@, d),
                        !.dus[i].idname = NULL,
                        !.dus[i].dev = 0,
                        !.ds[d].matched = FALSE,
                        !.ds[d].id = DEV_ID_TYPE_NONE,
                        !.update_file = TRUE, !.invalid = TRUE]

\* The second loop, from entry i on.
RECURSIVE ValidateDevname(_, _, _, _, _)
ValidateDevname(c, h, V, scanned, i) ==
    IF i > Len(V.dus) THEN V
    ELSE Bind(ValidateDevnameEntry(c, h, V, scanned, i),
              LAMBDA V1 : ValidateDevname(c, h, V1, scanned, i + 1))

\* A mutant of DropWrongDevs: no device is wiped.
DropNoDevs(V, k) == V

\* The devices given up as wrongly matched are wiped from the filter when no
\* entry refers to them any more (lvmcache is not part of this model).
RECURSIVE DropWrongDevs(_, _)
DropWrongDevs(V, k) ==
    IF k > Len(V.wrong) THEN V
    ELSE Bind(IF get_du_for_dev(V.dus, V.wrong[k]) = 0
              THEN [V EXCEPT !.ds[V.wrong[k]].filt = "unset"] ELSE V,
              LAMBDA V1 : DropWrongDevs(V1, k + 1))

\* The last loop: problems that are reported and not repaired here.
ValidateInvalid(dus) ==
    \E i \in DOMAIN dus :
       \/ dus[i].idname = NULL
       \/ dus[i].idname # <<>> /\ Head(dus[i].idname) = "."
       \/ dus[i].idtype = DEV_ID_TYPE_DEVNAME /\ dus[i].dev = 0 /\ dus[i].pvid # NULL

\* device_ids_validate up to, not including, the update of the file.
device_ids_validate(c, h, dus, ds, scanned) ==
    LET V0 == [dus |-> dus, ds |-> ds, update_file |-> FALSE, invalid |-> FALSE,
               wrong |-> <<>>, fixed |-> {}]
    IN  IF ~c.enable_devices_file THEN V0
        ELSE Bind(ValidateStable(c, h, V0, scanned, 1), LAMBDA V1 :
             Bind(ValidateDevname(c, h, V1, scanned, 1), LAMBDA V2 :
             Bind(DropWrongDevs(V2, 1), LAMBDA V3 :
                  [V3 EXCEPT !.invalid = @ \/ ValidateInvalid(V3.dus)])))

\* _device_ids_update_try(cmd) with device_ids_write inside it: the lock
\* state, _devices_file_version and the file afterwards.  sys is the result
\* of the non-blocking flock ("ok" where no other command holds the lock).
device_ids_update_try(c, lk, ver, file, dus, sys) ==
    IF c.expect_missing_vg_device THEN [lock |-> lk, version |-> ver, file |-> file]
    ELSE LET r  == lock_devices_file_(c, lk, LOCK_EX, sys)
             wr == /\ r.ret
                   /\ device_ids_version_unchanged(file, ver)
                   /\ WriteGate(c, ver, file # NoFile, FALSE) = "write"
         IN  [lock    |-> IF r.held THEN r.st ELSE unlock_devices_file(c, r.st),
              version |-> IF wr THEN VersionAfterWrite(ver) ELSE ver,
              file    |-> IF wr THEN FileText(c.system_id, DfCounter(ver), dus) ELSE file]

----------------------------------------------------------------------------
(* device_ids_find_renamed_devs                                             *)

s_mpath_ == <<"m", "p", "a", "t", "h", "-">>
s_CRYPT_ == <<"C", "R", "Y", "P", "T", "-">>
s_LVM_   == <<"L", "V", "M", "-">>
s_part   == <<"p", "a", "r", "t">>

dm_uuid_has_prefix(sysbuf, prefix) ==
    IF HasPrefix(sysbuf, prefix) THEN TRUE
    ELSE IF HasPrefix(sysbuf, s_part)
    THEN strchr(sysbuf, "-") # 0 /\ HasPrefix(From(sysbuf, strchr(sysbuf, "-") + 1), prefix)
    ELSE FALSE

\* A mutant of _dev_has_stable_id: only the identities already cached for
\* the device count.
dev_has_cached_stable_id(ds, d) ==
    \E t \in IdTypes : t # DEV_ID_TYPE_DEVNAME /\ ds[d].ids[t] \notin {UNSET, NULL}

dev_has_stable_id(ds, d) ==
    \/ \E t \in IdTypes : t # DEV_ID_TYPE_DEVNAME /\ ds[d].ids[t] \notin {UNSET, NULL}
    \/ \E t \in {DEV_ID_TYPE_SYS_WWID, DEV_ID_TYPE_SYS_SERIAL, DEV_ID_TYPE_LOOP_FILE} :
          /\ t = DEV_ID_TYPE_LOOP_FILE => DevTab[d].major = MajorLoop
          /\ device_id_system_read(d, t) # NULL
    \/ /\ DevTab[d].major = MajorDm
       /\ \E u \in {read_sys_block(d, "dm/uuid")} :
             /\ u # <<>>
             /\ \E prefix \in {s_mpath_, s_CRYPT_, s_LVM_} : dm_uuid_has_prefix(u, prefix)
    \/ /\ DevTab[d].major = MajorMd
       /\ read_sys_block(d, "md/uuid") # <<>>

\* The PVIDs to search for: entries of the devname kind with a PVID and no
\* device, or a device the filters excluded.
SearchPvids(c, dus, ds) ==
    LET Wanted(du) == /\ du.pvid # NULL
                      /\ du.idtype = DEV_ID_TYPE_DEVNAME
                      /\ ~(du.dev # 0 /\ ds[du.dev].filt # "fail")
        w == SelectSeq(dus, Wanted)
    IN  IF c.search_for_devnames = "none" THEN <<>>
        ELSE [k \in DOMAIN w |-> [pvid |-> w[k].pvid, dev |-> 0]]

\* A mutant of MarkFound: the first device found for a PVID is kept when
\* a second one turns up.
MarkFoundFirst(dils, pvid, d) ==
    [j \in DOMAIN dils |-> IF dils[j].pvid = pvid /\ dils[j].dev = 0
                           THEN [dils[j] EXCEPT !.dev = d] ELSE dils[j]]

\* One device's PVID against the search list: the first device found for a
\* PVID is recorded, a second one removes the PVID from the list.
MarkFound(dils, pvid, d) ==
    LET Kept(dil) == ~(dil.pvid = pvid /\ dil.dev # 0)
        k == SelectSeq(dils, Kept)
    IN  [j \in DOMAIN k |-> IF k[j].pvid = pvid THEN [k[j] EXCEPT !.dev = d] ELSE k[j]]

\* One pass of the loop that reads the devices to search, for device d.
\* R = [ds, dils, reads]; matched is the flag as it was when the list was
\* built, reads the devices label_read_pvid was called on.
SearchReadDev(c, h, matched, R, d) ==
    IF matched[d] \/ ~PassesNodataFilters(h, d) THEN R
    ELSE IF c.search_for_devnames = "auto" /\ dev_has_stable_id(R.ds, d) THEN R
    ELSE IF ~h[d].readable \/ h[d].pvid = <<>> THEN [R EXCEPT !.reads = @ \cup {d}]
    ELSE IF ~PassesDataFilters(h, d)
    THEN [R EXCEPT !.ds[d].pvid = h[d].pvid, !.reads = @ \cup {d}]
    ELSE [R EXCEPT !.ds[d].pvid = h[d].pvid, !.reads = @ \cup {d},
                   !.dils = MarkFound(@, h[d].pvid, d)]

\* The loop that reads the devices to search, from device d on.
RECURSIVE SearchRead(_, _, _, _, _)
SearchRead(c, h, matched, R, d) ==
    IF d \notin Devs THEN R
    ELSE Bind(SearchReadDev(c, h, matched, R, d),
              LAMBDA R1 : SearchRead(c, h, matched, R1, d + 1))

\* A mutant of RenameUpdateItem: the device found is counted and the entry
\* is not pointed at it.
RenameUpdateCounted(U, dils, k) ==
    IF dils[k].dev = 0 THEN [U EXCEPT !.not_found = TRUE] ELSE [U EXCEPT !.found = TRUE]

\* One pass of the loop that points the entries at the devices found, for
\* list item k.  U = [dus, ds, du, update_file, found, not_found]; U.du is
\* the local variable du, an entry's index or 0 for NULL.
RenameUpdateItem(U, dils, k) ==
    LET d == dils[k].dev
        i == get_du_for_pvid(U.dus, dils[k].pvid)
    IN  IF d = 0 THEN [U EXCEPT !.not_found = TRUE]
        ELSE IF i = 0 \/ U.dus[i].idtype # DEV_ID_TYPE_DEVNAME
        THEN [U EXCEPT !.found = TRUE, !.du = i]
        ELSE [U EXCEPT !.found = TRUE, !.du = i, !.update_file = TRUE,
                       !.dus[i].idname = dev_name(d),
                       !.dus[i].devname = dev_name(d),
                       !.dus[i].dev = d,
                       !.dus[i].part = DevTab[d].part,
                       !.ds[d].ids = [t \in IdTypes |->
                            IF t = DEV_ID_TYPE_DEVNAME THEN dev_name(d) ELSE UNSET],
                       !.ds[d].id = DEV_ID_TYPE_DEVNAME,
                       !.ds[d].matched = TRUE]

\* The loop that points the entries at the devices found, from item k on.
RECURSIVE RenameUpdate(_, _, _)
RenameUpdate(U, dils, k) ==
    IF k > Len(dils) THEN U
    ELSE Bind(RenameUpdateItem(U, dils, k), LAMBDA U1 : RenameUpdate(U1, dils, k + 1))

\* One pass of the loop that runs the whole filter chain on the devices
\* found, for list item k: on a failure it clears the dev of the entry the
\* local variable du was left at by the loop before, and the device's flag.
RenameRecheckItem(h, U, dils, k) ==
    LET d  == dils[k].dev
        ds == [U.ds EXCEPT ![d].filt = "unset"]
        U1 == [U EXCEPT !.ds = [PersistentSaved(h, ds, d) EXCEPT ![d].matched = FALSE]]
    IN  IF d = 0 THEN U
        ELSE IF PassesAllFilters(h, ds, d) THEN [U EXCEPT !.ds = PersistentSaved(h, ds, d)]
        ELSE IF U.du # 0 THEN [U1 EXCEPT !.dus[U.du].dev = 0]
        ELSE U1

\* The loop that runs the whole filter chain, from list item k on.
RECURSIVE RenameRecheck(_, _, _, _)
RenameRecheck(h, U, dils, k) ==
    IF k > Len(dils) THEN U
    ELSE Bind(RenameRecheckItem(h, U, dils, k),
              LAMBDA U1 : RenameRecheck(h, U1, dils, k + 1))

\* A mutant of searched_devnames_exists: the file counts for an alternate
\* devices file too.
searched_devnames_any(c, searched) == searched

\* _searched_devnames_exists(cmd); searched tells whether the file
\* searched_devnames is there.
searched_devnames_exists(c, searched) == ~c.devicesfile /\ searched

\* device_ids_find_renamed_devs up to, not including, the update of the
\* file: the registry and devices, whether the file is to be updated,
\* whether PVIDs were found or not found, the devices read and the devices
\* put on the caller's dev_list.
device_ids_find_renamed_devs(c, h, dus, ds, searched) ==
    LET U0 == [dus |-> dus, ds |-> ds, du |-> 0, update_file |-> FALSE,
               found |-> FALSE, not_found |-> FALSE, reads |-> {}, dev_list |-> {}]
    IN  Bind(SearchPvids(c, dus, ds), LAMBDA pv :
           IF ~c.enable_devices_file \/ pv = <<>> THEN U0
           ELSE IF searched_devnames_exists(c, searched) THEN U0
           ELSE Bind(SearchRead(c, h, [d \in Devs |-> ds[d].matched],
                                [ds |-> ds, dils |-> pv, reads |-> {}], 1), LAMBDA R :
                Bind(RenameUpdate([U0 EXCEPT !.ds = R.ds, !.reads = R.reads,
                                      !.dev_list = {R.dils[k].dev : k \in DOMAIN R.dils}
                                                   \ {0}],
                                  R.dils, 1), LAMBDA U :
                     RenameRecheck(h, U, R.dils, 1))))

----------------------------------------------------------------------------
(* device_id_add                                                            *)

\* dev_has_mpath_uuid, _dev_has_crypt_uuid, _dev_has_lvmlv_uuid on the
\* device's dm/uuid (<<>> when it has none).
dev_has_dm_uuid(uuid, prefix) == uuid # <<>> /\ dm_uuid_has_prefix(uuid, prefix)

\* What device_id_system_read gives for device d, by kind.
SystemIds(d) == [t \in IdTypes |-> device_id_system_read(d, t)]

\* A mutant of IdNameFrom: the serial number is not tried.
IdNameFromNoSerial(ids, idtype) ==
    IF ids[idtype] # NULL THEN idtype ELSE DEV_ID_TYPE_DEVNAME

\* The label id_name: the first kind, from idtype on, the system has an
\* identifier of; ids is SystemIds of the device.
IdNameFrom(ids, idtype) ==
    IF ids[idtype] # NULL THEN idtype
    ELSE IF idtype = DEV_ID_TYPE_SYS_WWID
    THEN IF ids[DEV_ID_TYPE_SYS_SERIAL] # NULL
         THEN DEV_ID_TYPE_SYS_SERIAL ELSE DEV_ID_TYPE_DEVNAME
    ELSE DEV_ID_TYPE_DEVNAME

\* The kind and name device_id_add chooses when no kind is asked for.
AddId(d) ==
    Bind(SystemIds(d), LAMBDA ids :
    Bind(read_sys_block(d, "dm/uuid"), LAMBDA u :
       LET dm == DevTab[d].major = MajorDm
           t  == IdNameFrom(ids,
                    IF DevTab[d].major = MajorLoop THEN DEV_ID_TYPE_LOOP_FILE
                    ELSE IF DevTab[d].major = MajorMd THEN DEV_ID_TYPE_MD_UUID
                    ELSE DEV_ID_TYPE_SYS_WWID)
       IN  IF dm /\ dev_has_dm_uuid(u, s_mpath_)
           THEN [idtype |-> DEV_ID_TYPE_MPATH_UUID, idname |-> u]
           ELSE IF dm /\ dev_has_dm_uuid(u, s_CRYPT_)
           THEN [idtype |-> DEV_ID_TYPE_CRYPT_UUID, idname |-> u]
           ELSE IF dm /\ dev_has_dm_uuid(u, s_LVM_)
           THEN [idtype |-> DEV_ID_TYPE_LVMLV_UUID, idname |-> u]
           ELSE [idtype |-> t, idname |-> ids[t]]))

\* The kind and name device_id_add chooses: the kind asked for with the
\* name given, else with the identifier of that kind read from the system,
\* else (no kind asked for, an unknown one, or one the device has no
\* identifier of) the kind chosen by the device.
AddIdArgs(d, idtype_arg, id_arg) ==
    Bind(IF idtype_arg = NULL THEN DEV_ID_TYPE_NONE ELSE idtype_from_str(idtype_arg),
         LAMBDA idtype :
            IF idtype # DEV_ID_TYPE_NONE /\ id_arg # NULL
            THEN [idtype |-> idtype, idname |-> id_arg]
            ELSE IF idtype # DEV_ID_TYPE_NONE /\ device_id_system_read(d, idtype) # NULL
            THEN [idtype |-> idtype, idname |-> device_id_system_read(d, idtype)]
            ELSE AddId(d))

\* check_idname: the device's identifier of the kind of the entry found for
\* the PVID (entry k); id is the identifier chosen for the device.
AddCheckIdname(dus, d, id, k) ==
    IF dus[k].idtype = id.idtype THEN id.idname
    ELSE device_id_system_read(d, dus[k].idtype)

\* The existing entry that is updated (0 when a new one is made), and
\* whether strcmp(check_idname, du_pvid->idname) is called with a NULL
\* du_pvid->idname, a call the command does not survive.
AddUpdateDu(dus, d, id, pvid) ==
    Bind(get_du_for_dev(dus, d), LAMBDA du_dev :
    Bind(get_du_for_pvid(dus, pvid), LAMBDA du_pvid :
       IF du_dev # 0 THEN [du |-> du_dev, by |-> "device", faults |-> FALSE]
       ELSE IF du_pvid # 0
       THEN Bind(AddCheckIdname(dus, d, id, du_pvid), LAMBDA check_idname :
               IF check_idname # NULL /\ dus[du_pvid].idname = NULL
               THEN [du |-> 0, by |-> "PVID", faults |-> TRUE]
               ELSE IF check_idname # NULL /\ check_idname = dus[du_pvid].idname
               THEN [du |-> du_pvid, by |-> "PVID", faults |-> FALSE]
               ELSE [du |-> 0, by |-> "PVID", faults |-> FALSE])
       ELSE Bind(get_du_for_device_id(dus, id.idtype, id.idname), LAMBDA du_devid :
               IF du_devid # 0 /\ dus[du_devid].dev = d
               THEN [du |-> du_devid, by |-> "device_id", faults |-> FALSE]
               ELSE [du |-> 0, by |-> "none", faults |-> FALSE])))

\* dev_get_primary_dev gives 2 for both devices and the same primary: they
\* are partitions of one device.
SamePrimary(d, e) ==
    DevTab[d].primary # 0 /\ DevTab[e].primary # 0 /\ DevTab[d].primary = DevTab[e].primary

\* The warnings of device_id_add about entries of other devices: pvid is set
\* when the PVID is already used, devid is "missing" or "used" when the
\* identifier is already used, "partitions" when that is only logged for two
\* partitions of one device, "none" otherwise.
AddWarns(dus, d, id, pvid) ==
    Bind(get_du_for_pvid(dus, pvid), LAMBDA du_pvid :
    Bind(get_du_for_device_id(dus, id.idtype, id.idname), LAMBDA du_devid :
       [pvid  |-> du_pvid # 0 /\ dus[du_pvid].dev # d,
        devid |-> IF du_devid = 0 \/ dus[du_devid].dev = d THEN "none"
                  ELSE IF dus[du_devid].dev = 0 THEN "missing"
                  ELSE IF SamePrimary(d, dus[du_devid].dev) THEN "partitions"
                  ELSE "used"]))

\* A mutant of AddPrompts: the user is asked whenever an entry has the PVID.
AddPromptsAnyPvid(c, u) == u.by = "PVID" /\ ~c.yes

\* Is the user asked "Add device with duplicate PV to devices file?"; u is
\* the result of AddUpdateDu.
AddPrompts(c, u) == u.by = "PVID" /\ u.du = 0 /\ ~c.yes

RemoveAt(seq, k) == [j \in 1..(Len(seq) - 1) |-> IF j < k THEN seq[j] ELSE seq[j + 1]]

\* device_id_add(cmd, dev, pvid_arg, NULL, NULL) with the user's answer to
\* the prompt, if there is one: the registry and the devices afterwards, and
\* whether the command survived the call.
device_id_add_args(c, S, d, pvid, idtype_arg, id_arg, answer) ==
    IF ~c.enable_devices_file /\ ~c.pending_devices_file THEN [S |-> S, faults |-> FALSE]
    ELSE Bind(AddIdArgs(d, idtype_arg, id_arg), LAMBDA id :
         Bind(AddUpdateDu(S.dus, d, id, pvid), LAMBDA u :
            LET ds1 == [S.ds EXCEPT ![d].ids[id.idtype] = id.idname,
                                    ![d].id = id.idtype, ![d].matched = TRUE]
                du  == NewDu(id.idtype, id.idname, dev_name(d), pvid, DevTab[d].part, d)
            IN  IF u.faults THEN [S |-> S, faults |-> TRUE]
                ELSE IF AddPrompts(c, u) /\ answer = "n"
                THEN [S |-> [S EXCEPT !.ds = ds1], faults |-> FALSE]
                ELSE [S |-> [dus |-> Append(IF u.du # 0 THEN RemoveAt(S.dus, u.du)
                                            ELSE S.dus, du),
                             ds |-> ds1],
                      faults |-> FALSE]))

\* device_id_add(cmd, dev, pvid, NULL, NULL): no kind is asked for.
device_id_add(c, S, d, pvid, answer) ==
    device_id_add_args(c, S, d, pvid, NULL, NULL, answer)

----------------------------------------------------------------------------
(* One command on one host: the file is read, the entries are matched, the  *)
(* devices are scanned, the entries are validated, renamed devices are      *)
(* searched for, devices are added.                                         *)

\* How many operations one command performs.
MaxSteps == 5

MainCmds == {BaseCmd, [BaseCmd EXCEPT !.yes = FALSE, !.search_for_devnames = "all"]}

\* A command on an alternate devices file (--devicesfile).
AltCmd == [BaseCmd EXCEPT !.devicesfile = TRUE]

\* The commands the model starts with, and whether an earlier command has
\* left the file searched_devnames behind.
MainStarts ==
    {[cmd |-> c, searched |-> FALSE] : c \in MainCmds}
       \cup {[cmd |-> BaseCmd, searched |-> TRUE], [cmd |-> AltCmd, searched |-> TRUE]}

du_sda_wwid == NewDu(DEV_ID_TYPE_SYS_WWID, n_wwid, n_sda, pv_1, 0, 0)
du_sdb_p2   == NewDu(DEV_ID_TYPE_DEVNAME, n_sdb, n_sdb, pv_2, 0, 0)
du_sdc_p3   == NewDu(DEV_ID_TYPE_DEVNAME, n_sdc, n_sdc, pv_3, 0, 0)
du_sda_name == NewDu(DEV_ID_TYPE_DEVNAME, n_sda, n_sda, pv_2, 0, 0)
du_mapx     == NewDu(DEV_ID_TYPE_DEVNAME, n_mapx, NULL, pv_3, 0, 0)

\* The registries the file may hold: one entry of a stable kind, one of the
\* devname kind, the same entry twice, two entries of the devname kind,
\* two entries of different kinds for one device, and one entry of the
\* devname kind that names a dm device by its other name.
MainRegistries ==
    { <<du_sda_wwid>>, <<du_sdb_p2>>, <<du_sdb_p2, du_sdb_p2>>,
      <<du_sdb_p2, du_sdc_p3>>, <<du_sda_wwid, du_sda_name>>, <<du_mapx>> }

MainFiles == {FileText(s_hostA, 0, R) : R \in MainRegistries}

\* What the host holds for each device: the PVID on the disk (<<>> when the
\* disk holds no PV), whether the disk can be read, and the filter that
\* excludes it: "nodata" a filter that reads nothing (sysfs, type, usable,
\* mpath), "data" a filter that uses the data read, "regex" the configured
\* filter, "none".
HostOf(pvids, unreadable, excl) ==
    [d \in Devs |-> [pvid |-> pvids[d], readable |-> d \notin unreadable,
                     excl |-> excl[d]]]

excl_none == <<"none", "none", "none", "none">>

MainHosts ==
    { HostOf(<<pv_1, pv_2, pv_3, <<>> >>, {}, excl_none),
      HostOf(<<pv_1, pv_3, pv_2, <<>> >>, {}, excl_none),
      HostOf(<<pv_1, pv_3, pv_2, <<>> >>, {}, <<"none", "none", "regex", "none">>),
      HostOf(<<pv_1, pv_2, pv_3, <<>> >>, {1}, <<"none", "data", "none", "nodata">>),
      HostOf(<<pv_2, <<>>, pv_2, <<>> >>, {}, excl_none),
      HostOf(<<pv_3, pv_2, <<>>, <<>> >>, {}, <<"regex", "none", "none", "none">>),
      HostOf(<<pv_1, pv_2, <<>>, pv_3>>, {}, excl_none) }

\* What the last operation was and what it gave back: its return value,
\* the scanned_devs and noupdate it was given, whether it had the file
\* updated (update_file), the entries whose pvid it replaced, its
\* device_ids_invalid, the devices it read and the devices it put on
\* dev_list.
NewOut == [op |-> "init", n |-> 0, adds |-> 0, ret |-> TRUE, scanned |-> ScanList(TRUE, {}),
           fixed |-> {}, invalid |-> FALSE, noupdate |-> FALSE, update_file |-> FALSE,
           reads |-> {}, dev_list |-> {}]

Done(op, ret) ==
    [NewOut EXCEPT !.op = op, !.n = out.n + 1, !.ret = ret,
                   !.adds = IF op = "add" THEN out.adds + 1 ELSE out.adds]

\* How many devices one command adds.
MaxAdds == 1

Init ==
    /\ cmd \in {st.cmd : st \in MainStarts}
    /\ use_devices = <<>>
    /\ devst = [d \in Devs |-> NewDev]
    /\ version = <<>>
    /\ lock = Unlocked
    /\ disk \in {[file |-> f, searched |-> st.searched] :
                     f \in MainFiles, st \in {x \in MainStarts : x.cmd = cmd}}
    /\ host \in MainHosts
    /\ out = NewOut
    /\ LockIdle /\ FileIdle /\ OpsIdle

\* device_ids_read(cmd).
DeviceIdsRead ==
    /\ out.n < MaxSteps
    /\ IF ~cmd.enable_devices_file \/ use_devices # <<>>
       THEN /\ out' = Done("read", TRUE)
            /\ UNCHANGED <<use_devices, version>>
       ELSE IF disk.file = NoFile
       THEN /\ out' = Done("read", FALSE)
            /\ UNCHANGED <<use_devices, version>>
       ELSE \E r \in {ReadLines(disk.file,
                                [dus |-> <<>>, systemid |-> <<>>, version |-> version])} :
                /\ use_devices' = r.dus
                /\ version' = r.version
                /\ out' = Done("read", TRUE)
    /\ UNCHANGED <<cmd, devst, lock, disk, host, lockvars, filevars, opsvars>>

\* device_ids_match(cmd).
DeviceIdsMatch ==
    /\ out.n < MaxSteps
    /\ \E S \in {device_ids_match(cmd, [dus |-> use_devices, ds |-> devst])} :
           /\ use_devices' = S.dus
           /\ devst' = S.ds
    /\ out' = Done("match", TRUE)
    /\ UNCHANGED <<cmd, version, lock, disk, host, lockvars, filevars, opsvars>>

\* The label scan of the surrounding command: the devices that pass the
\* filters that read nothing (the identity filter among them) are listed and
\* read; a device that is read gets its PVID and the verdict of the filters
\* that use the data; a device that cannot be read is flagged.
ScanDevs(h, ds) ==
    [d \in Devs |->
          IF ~(h[d].excl \notin {"nodata", "regex"} /\ PassesDeviceidFilter(ds, d))
          THEN [ds[d] EXCEPT !.filt = "fail", !.scanned = FALSE]
          ELSE IF ~h[d].readable
          THEN [ds[d] EXCEPT !.filt = "pass", !.scanned = TRUE, !.not_read = TRUE]
          ELSE [ds[d] EXCEPT !.filt = IF PassesDataFilters(h, d) THEN "pass" ELSE "fail",
                             !.scanned = TRUE, !.not_read = FALSE,
                             !.pvid = h[d].pvid]]

LabelScan ==
    /\ out.n < MaxSteps
    /\ devst' = ScanDevs(host, devst)
    /\ out' = Done("scan", TRUE)
    /\ UNCHANGED <<cmd, use_devices, version, lock, disk, host, lockvars, filevars, opsvars>>

\* device_ids_validate(cmd, scanned_devs, &device_ids_invalid, noupdate).
DeviceIdsValidate ==
    /\ out.n < MaxSteps
    /\ \E null \in BOOLEAN :
       \E scanned \in {ScanList(null, IF null THEN {} ELSE {d \in Devs : devst[d].scanned})} :
       \E V \in {device_ids_validate(cmd, host, use_devices, devst, scanned)} :
       \E noupdate \in BOOLEAN :
       \E W \in {IF V.update_file /\ ~noupdate
                 THEN device_ids_update_try(cmd, lock, version, disk.file, V.dus, "ok")
                 ELSE [lock |-> lock, version |-> version, file |-> disk.file]} :
             /\ use_devices' = V.dus
             /\ devst' = V.ds
             /\ lock' = W.lock
             /\ version' = W.version
             /\ disk' = [file |-> W.file,
                         searched |-> IF V.update_file /\ ~cmd.devicesfile THEN FALSE
                                      ELSE disk.searched]
             /\ out' = [Done("validate", TRUE) EXCEPT !.scanned = scanned,
                           !.fixed = V.fixed, !.invalid = V.invalid,
                           !.noupdate = noupdate, !.update_file = V.update_file]
    /\ UNCHANGED <<cmd, host, lockvars, filevars, opsvars>>

\* device_ids_find_renamed_devs(cmd, dev_list, NULL, noupdate).
DeviceIdsFindRenamedDevs ==
    /\ out.n < MaxSteps
    /\ \E U \in {device_ids_find_renamed_devs(cmd, host, use_devices, devst, disk.searched)} :
       \E noupdate \in BOOLEAN :
       \E W \in {IF U.update_file /\ ~noupdate
                 THEN device_ids_update_try(cmd, lock, version, disk.file, U.dus, "ok")
                 ELSE [lock |-> lock, version |-> version, file |-> disk.file]} :
             /\ use_devices' = U.dus
             /\ devst' = U.ds
             /\ lock' = W.lock
             /\ version' = W.version
             /\ disk' = [file |-> W.file,
                         searched |-> IF U.not_found /\ ~U.found /\ ~cmd.devicesfile
                                      THEN TRUE ELSE disk.searched]
             /\ out' = [Done("find_renamed", TRUE) EXCEPT
                           !.noupdate = noupdate, !.update_file = U.update_file,
                           !.reads = U.reads, !.dev_list = U.dev_list]
    /\ UNCHANGED <<cmd, host, lockvars, filevars, opsvars>>

\* The PVID a device is added with: the one on its disk, or a new one.
AddPvid(d) == IF host[d].pvid # <<>> THEN host[d].pvid ELSE pv_3

\* device_id_add(cmd, dev, pvid, NULL, NULL); the answer matters only when
\* the user is asked.
DeviceIdAdd ==
    /\ out.n < MaxSteps
    /\ out.adds < MaxAdds
    /\ \E d \in Devs, answer \in {"y", "n"} :
       \E r \in {device_id_add(cmd, [dus |-> use_devices, ds |-> devst], d,
                               AddPvid(d), answer)} :
         /\ ~r.faults
         /\ use_devices' = r.S.dus
         /\ devst' = r.S.ds
    /\ out' = Done("add", TRUE)
    /\ UNCHANGED <<cmd, version, lock, disk, host, lockvars, filevars, opsvars>>

Next ==
    \/ DeviceIdsRead
    \/ DeviceIdsMatch
    \/ LabelScan
    \/ DeviceIdsValidate
    \/ DeviceIdsFindRenamedDevs
    \/ DeviceIdAdd

Spec == Init /\ [][Next]_vars

----------------------------------------------------------------------------
(* Properties of the registry under Spec.                                   *)

\* Is entry i matched?
MatchedDu(i) == use_devices[i].dev # 0

\* C1 (unique matching): in every state the operations reach, no two
\* entries of the registry have their dev set to the same device.
C1_UniqueMatching ==
    \A i, j \in DOMAIN use_devices :
       i # j /\ MatchedDu(i) => use_devices[i].dev # use_devices[j].dev

\* C2 (matched coupling): in every state the operations reach, a device
\* carries DEV_MATCHED_USE_ID exactly when some entry has its dev set to it.
C2_MatchedCoupling ==
    \A d \in Devs : devst[d].matched <=> \E i \in DOMAIN use_devices : use_devices[i].dev = d

\* C31 (every listed device has an entry): in every state the operations
\* reach, each device that carries DEV_MATCHED_USE_ID is the dev of some
\* entry of the registry.
C31_ListedHasEntry ==
    \A d \in Devs : devst[d].matched => \E i \in DOMAIN use_devices : use_devices[i].dev = d

\* The same over the states that device_id_add leaves: a declined add
\* included.
C31_ListedHasEntryAfterAdd ==
    out.op = "add" => C31_ListedHasEntry

\* Entry i's pvid is absent or is the PVID recorded on its device.
PvidAgrees(i) ==
    \/ use_devices[i].pvid = NULL
    \/ use_devices[i].pvid = devst[use_devices[i].dev].pvid

\* C10 as stated (PVID agreement after validation): when device_ids_validate
\* returns, every entry still matched to a device has a pvid that equals
\* the PVID recorded on that device or is absent.
C10_PvidAgreement ==
    out.op = "validate" => \A i \in DOMAIN use_devices : MatchedDu(i) => PvidAgrees(i)

\* The device could be verified: it is on the scanned list (or no list was
\* given), it was read, and the filters let it pass.
Verifiable(d) ==
    /\ dev_in_device_list(d, out.scanned)
    /\ ~devst[d].not_read
    /\ PersistentPasses(host, devst, d)

\* C10 amended: when device_ids_validate returns, every entry still matched
\* to a device that was scanned, was read and passes the filters has a pvid
\* that equals the PVID recorded on that device or is absent.
C10_PvidAgreementVerifiable ==
    out.op = "validate" =>
       \A i \in DOMAIN use_devices :
          MatchedDu(i) /\ Verifiable(use_devices[i].dev) => PvidAgrees(i)

\* A validation replaced the pvid of an entry with the PVID read from its
\* device, which was scanned, read and passed the filters.
C10_Witness ==
    /\ out.op = "validate"
    /\ \E i \in out.fixed :
          /\ MatchedDu(i)
          /\ Verifiable(use_devices[i].dev)
          /\ use_devices[i].pvid # NULL
          /\ use_devices[i].pvid = devst[use_devices[i].dev].pvid

----------------------------------------------------------------------------
(* Properties of single operations under Spec: the state before the step   *)
(* is unprimed, the state the operation leaves is primed.                   *)

ValidateStep == out'.op = "validate" /\ out'.n = out.n + 1

\* Entry i is of the devname kind and matched to a device.
MatchedDevname(i) ==
    use_devices[i].dev # 0 /\ use_devices[i].idtype = DEV_ID_TYPE_DEVNAME

\* The device entry i is matched to carries the entry's PVID.
CarriesPvid(i) ==
    /\ devst[use_devices[i].dev].pvid # <<>>
    /\ devst[use_devices[i].dev].pvid = use_devices[i].pvid

\* What the validation does to an impostor: the pairing of entry i and
\* device d is undone, devname and pvid stay, the file is to be updated,
\* and the device is wiped from the filter when no entry refers to it.
Unmatched(i, d) ==
    /\ use_devices'[i].dev = 0
    /\ use_devices'[i].idname = NULL
    /\ ~devst'[d].matched
    /\ devst'[d].id = DEV_ID_TYPE_NONE
    /\ use_devices'[i].devname = use_devices[i].devname
    /\ use_devices'[i].pvid = use_devices[i].pvid
    /\ out'.update_file
    /\ (\A j \in DOMAIN use_devices' : use_devices'[j].dev # d) => devst'[d].filt = "unset"

Checkable(i) ==
    /\ dev_in_device_list(use_devices[i].dev, out'.scanned)
    /\ ~devst[use_devices[i].dev].not_read
    /\ PersistentPasses(host, devst, use_devices[i].dev)
    /\ use_devices[i].pvid # NULL
    /\ ~(use_devices[i].pvid # <<>> /\ Head(use_devices[i].pvid) = ".")

FindStep == out'.op = "find_renamed" /\ out'.n = out.n + 1

\* Entry i is of the devname kind, has a PVID, and has no device or one
\* that the filters excluded.
SearchedFor(i) ==
    /\ use_devices[i].idtype = DEV_ID_TYPE_DEVNAME
    /\ use_devices[i].pvid # NULL
    /\ ~(use_devices[i].dev # 0 /\ devst[use_devices[i].dev].filt # "fail")

\* Device d is a candidate of the search and carries pvid: it is not
\* matched, passes the filters that read nothing, is not left out for a
\* stable identity, can be read, and passes the filters that use the data.
Candidate(d, pvid) ==
    /\ ~devst[d].matched
    /\ PassesNodataFilters(host, d)
    /\ ~(cmd.search_for_devnames = "auto" /\ dev_has_stable_id(devst, d))
    /\ host[d].readable /\ host[d].pvid = pvid
    /\ PassesDataFilters(host, d)

OnlyCandidate(d, pvid) ==
    Candidate(d, pvid) /\ \A e \in Devs : Candidate(e, pvid) => e = d

\* The counter of the VERSION line of a file.
FileCounter(file) == sscanf_version(FileVersion(file)).counter

\* What the search does to entry i for the device d it found.
Renamed(i, d) ==
    /\ use_devices'[i].idname = dev_name(d)
    /\ use_devices'[i].devname = dev_name(d)
    /\ use_devices'[i].pvid = use_devices[i].pvid
    /\ devst'[d].id = DEV_ID_TYPE_DEVNAME
    /\ d \in out'.dev_list

Repaired(i, d) == use_devices'[i].dev = d /\ devst'[d].matched

SearchRuns ==
    /\ cmd.enable_devices_file
    /\ cmd.search_for_devnames # "none"
    /\ ~searched_devnames_exists(cmd, disk.searched)

C13_AmbiguousRename ==
    [][FindStep =>
         \A i \in DOMAIN use_devices :
            /\ SearchedFor(i)
            /\ \E d, e \in Devs : /\ d # e
                                  /\ Candidate(d, use_devices[i].pvid)
                                  /\ Candidate(e, use_devices[i].pvid)
            => /\ \A j \in DOMAIN use_devices :
                     use_devices[j].pvid = use_devices[i].pvid =>
                        /\ use_devices'[j].dev = use_devices[j].dev
                        /\ use_devices'[j].idname = use_devices[j].idname
                        /\ use_devices'[j].devname = use_devices[j].devname
               /\ \A d \in Devs :
                     Candidate(d, use_devices[i].pvid) =>
                        ~devst'[d].matched /\ d \notin out'.dev_list]_vars

\* A search read two devices that carry the PVID of an entry without a
\* device; the entry is still without a device and nothing was reported.
C13_Witness ==
    /\ out.op = "find_renamed" /\ out.dev_list = {} /\ ~out.update_file
    /\ \E i \in DOMAIN use_devices : \E d, e \in out.reads :
          /\ d # e
          /\ host[d].pvid = use_devices[i].pvid /\ host[e].pvid = use_devices[i].pvid
          /\ PassesDataFilters(host, d) /\ PassesDataFilters(host, e)
          /\ use_devices[i].idtype = DEV_ID_TYPE_DEVNAME
          /\ use_devices[i].dev = 0
          /\ ~devst[d].matched /\ ~devst[e].matched

\* What a new command makes of a file on this host: device_ids_read,
\* device_ids_match, the label scan, and device_ids_validate on the devices
\* scanned (or without a list, when null).  M is the registry and the
\* devices as the validation finds them, V as it leaves them.
FreshCycle(c, h, file, null) ==
    LET r  == ReadLines(file, [dus |-> <<>>, systemid |-> <<>>, version |-> <<>>])
        S  == device_ids_match(c, [dus |-> r.dus, ds |-> [d \in Devs |-> NewDev]])
        ds == ScanDevs(h, S.ds)
        sc == ScanList(null, IF null THEN {} ELSE {d \in Devs : ds[d].scanned})
    IN  [M |-> [dus |-> S.dus, ds |-> ds],
         V |-> device_ids_validate(c, h, S.dus, ds, sc)]

\* The validation of this step ends a cycle: the registry and the devices
\* it finds are what read, match and scan make of the file on this host.
InCycle ==
    \E F \in {FreshCycle(cmd, host, disk.file, out'.scanned.null)} :
       use_devices = F.M.dus /\ devst = F.M.ds

\* The validation of this step ends a cycle, had the file updated, and the
\* update was written.
ValidateWrote ==
    /\ ValidateStep
    /\ out'.update_file /\ ~out'.noupdate
    /\ disk'.file # disk.file
    /\ InCycle

\* A fresh cycle on the file as it is after this step changes no entry and
\* asks for no update.
Converged ==
    \E F \in {FreshCycle(cmd, host, disk'.file, out'.scanned.null)} :
       F.V.dus = F.M.dus /\ ~F.V.update_file

\* C14 (validator convergence): after a cycle of read, match, scan and
\* device_ids_validate whose update of the file was written, on a host that
\* does not change, a fresh cycle of read, match, scan and validate changes
\* no field of any entry and asks for no update of the file.
C14_ValidatorConvergence == [][ValidateWrote => Converged]_vars


\* The fields of an entry that the file holds.
Persisted(du) == [du EXCEPT !.dev = 0]

\* A cycle's validation replaced the pvid of an entry and wrote the file;
\* a fresh cycle reads the registry back as it was written, changes no
\* entry and asks for no update.
C14_Witness ==
    /\ out.op = "validate" /\ out.update_file /\ ~out.noupdate
    /\ out.fixed # {}
    /\ disk.file = FileText(cmd.system_id, 1, use_devices)
    /\ \E F \in {FreshCycle(cmd, host, disk.file, out.scanned.null)} :
          /\ [i \in DOMAIN F.M.dus |-> Persisted(F.M.dus[i])]
                = [i \in DOMAIN use_devices |-> Persisted(use_devices[i])]
          /\ \E i \in out.fixed : F.M.dus[i].dev # 0 /\ ~ValidateSkips(F.M, i, out.scanned)
          /\ F.V.dus = F.M.dus /\ ~F.V.update_file

\* C15 (idempotent match): right after device_ids_match, running it again
\* on the same registry and devices leaves every entry's dev, every
\* device's active identity and every matched flag as they are.
C15_IdempotentMatch ==
    out.op = "match" =>
       \E S \in {device_ids_match(cmd, [dus |-> use_devices, ds |-> devst])} :
          /\ \A i \in DOMAIN use_devices : S.dus[i].dev = use_devices[i].dev
          /\ \A d \in Devs : /\ S.ds[d].id = devst[d].id
                             /\ S.ds[d].matched = devst[d].matched


\* C16 (sentinel protocol): with the system devices file, a
\* device_ids_find_renamed_devs that finds searched_devnames reads no device
\* and changes no entry; searched_devnames is created only by a search in
\* which a PVID searched for was not found and none was found; a
\* device_ids_validate that edits the registry removes it; and with an
\* alternate devices file it is never consulted, created or removed.
C16_SentinelProtocol ==
    [][/\ FindStep /\ ~cmd.devicesfile /\ disk.searched =>
             out'.reads = {} /\ use_devices' = use_devices
       /\ ~disk.searched /\ disk'.searched =>
             /\ FindStep /\ SearchRuns
             /\ \E i \in DOMAIN use_devices :
                   /\ SearchedFor(i)
                   /\ \A d \in Devs : ~Candidate(d, use_devices[i].pvid)
             /\ out'.dev_list = {}
       /\ ValidateStep /\ ~cmd.devicesfile /\ use_devices' # use_devices =>
             ~disk'.searched
       /\ cmd.devicesfile =>
             /\ disk'.searched = disk.searched
             /\ FindStep =>
                   \E U \in {device_ids_find_renamed_devs(cmd, host, use_devices, devst,
                                                          ~disk.searched)} :
                      use_devices' = U.dus /\ devst' = U.ds /\ out'.reads = U.reads
      ]_vars

\* A search on the system devices file found searched_devnames and read
\* nothing, although an unmatched device carries the PVID of an entry of
\* the devname kind that has no device.
C16_Witness ==
    /\ out.op = "find_renamed" /\ disk.searched /\ ~cmd.devicesfile
    /\ out.reads = {} /\ out.dev_list = {}
    /\ \E i \in DOMAIN use_devices : \E d \in Devs :
          /\ use_devices[i].idtype = DEV_ID_TYPE_DEVNAME
          /\ use_devices[i].dev = 0
          /\ use_devices[i].pvid = host[d].pvid
          /\ ~devst[d].matched /\ host[d].excl = "none" /\ host[d].readable
          /\ ~dev_has_stable_id(devst, d)


\* The step is one of device_ids_match, device_ids_validate and
\* device_ids_find_renamed_devs.
PairingStep ==
    out'.op \in {"match", "validate", "find_renamed"} /\ out'.n = out.n + 1

\* C17 (orphan retention): device_ids_match, device_ids_validate and
\* device_ids_find_renamed_devs leave the number of entries and their order
\* as they are: every entry keeps its place and its kind, and an entry
\* without a device keeps its PVID, whether or not a device is found for it.
C17_OrphanRetention ==
    [][PairingStep =>
         /\ Len(use_devices') = Len(use_devices)
         /\ \A i \in DOMAIN use_devices :
               /\ use_devices'[i].idtype = use_devices[i].idtype
               /\ use_devices[i].dev = 0 => use_devices'[i].pvid = use_devices[i].pvid]_vars

\* After one of the three operations an entry that names no device of the
\* host and whose PVID no device carries is still in the registry, without
\* a device.
C17_Witness ==
    /\ out.op \in {"match", "validate", "find_renamed"}
    /\ \E i \in DOMAIN use_devices :
          /\ use_devices[i].dev = 0
          /\ use_devices[i].pvid # NULL
          /\ \A d \in Devs : /\ host[d].pvid # use_devices[i].pvid
                             /\ dev_name(d) # use_devices[i].idname

----------------------------------------------------------------------------
(* Properties of the best-effort update under SpecLock                     *)

\* p is inside _device_ids_update_try, between its try-lock and its return.
InUpdateTry(p) ==
    \/ proc[p].pc \in {"ut_lock", "ut_check", "ut_unlock"}
    \/ InWrite(p) /\ proc[p].after = "ut_unlock"

\* The step in which p's try-lock returns, the one in which its version
\* check returns, and the one in which _device_ids_update_try returns.
TryLockStep(p) == proc[p].pc = "ut_lock" /\ proc'[p].pc # "ut_lock"
CheckVersionStep(p) == proc[p].pc = "ut_check" /\ proc'[p].pc # "ut_check"
UpdateTryReturns(p) == proc[p].pc = "ut_unlock" /\ proc'[p].pc = "work"

\* p holds the exclusive lock: _devices_file_locked is LOCK_EX, the lock
\* file is open and the kernel holds the flock.
HoldsEx(p) == proc[p].lk.locked = LOCK_EX /\ proc[p].lk.fd /\ kl[p] = LOCK_EX

\* The lock state of p is the same before and after the step.
LockKept(p) == proc'[p].lk = proc[p].lk /\ kl'[p] = kl[p]

\* The parts of C18 about the lock: the nested try-lock returns success
\* with held set, every step of the update keeps the lock state and the
\* lock fd, and outside an update the exclusive lock is given up only by
\* the unlock at the end of the command (or with the process).
ReentrantLock(p) ==
    /\ (TryLockStep(p) /\ HoldsEx(p))
          => (proc'[p].held /\ proc'[p].pc = "ut_check" /\ LockKept(p))
    /\ (InUpdateTry(p) /\ proc[p].held /\ proc'[p].pc # "crashed")
          => (HoldsEx(p) /\ LockKept(p))
    /\ (HoldsEx(p) /\ ~InUpdateTry(p) /\ ~LockKept(p))
          => (proc[p].pc = "work" /\ proc'[p].pc = "done") \/ proc'[p].pc = "crashed"

\* C18 as stated. Re-entrant exclusive lock: a command that holds the
\* exclusive lock and runs _device_ids_update_try gets held = 1 from the
\* nested try-lock, goes on to device_ids_write, and still holds the
\* exclusive lock, with the lock state and the lock fd unchanged, when the
\* update returns; only the outer unlock releases the lock.
C18_ReentrantExclusiveLock ==
    [][\A p \in Procs :
        /\ ReentrantLock(p)
        /\ (CheckVersionStep(p) /\ proc[p].held) => proc'[p].pc = "w_begin"]_vars

\* C18 amended. As above, but the command goes on to device_ids_write
\* exactly when the first VERSION line of the file on disk equals the
\* version the command has in memory; with a file that has no VERSION line,
\* or a version in memory that never reached the disk, the update is
\* skipped and the lock is kept all the same.
C18_ReentrantExclusiveLockVersioned ==
    [][\A p \in Procs :
        /\ ReentrantLock(p)
        /\ (CheckVersionStep(p) /\ proc[p].held)
              => (proc'[p].pc = "w_begin"
                    <=> device_ids_version_unchanged(dk.file, proc[p].ver))]_vars

\* A command that held the exclusive lock has returned from an update in
\* which its nested try-lock set held and its write replaced the file, and
\* it still holds the lock.
C18_Witness ==
    \E p \in Procs :
        /\ proc[p].pc = "work" /\ proc[p].held /\ proc[p].ops > 0
        /\ proc[p].lk.locked = LOCK_EX /\ proc[p].lk.fd /\ kl[p] = LOCK_EX
        /\ proc[p].wret /\ proc[p].known = proc[p].ver
        /\ dk.file # NoFile /\ FileVersion(dk.file) = proc[p].ver
        /\ EntryLine(EditedDus(proc[p].dus, p)[1]) \in {dk.file[i] : i \in DOMAIN dk.file}

\* The command of p takes locks: the devices file is enabled and the
\* command does not run with nolocking.
Locking(p) == proc[p].cmd.enable_devices_file /\ ~proc[p].cmd.nolocking

\* The step in which the try-lock of p's update returns without the lock:
\* p did not hold it and the kernel has not granted it (the lock is busy,
\* or the lock file could not be opened).
TryLockNotObtained(p) ==
    /\ TryLockStep(p) /\ Locking(p)
    /\ ~AlreadyLocked(proc[p].lk, LOCK_EX)
    /\ kl'[p] # LOCK_EX

\* The step in which the first, blocking lock call of p returns without
\* the lock.
BlockingLockNotObtained(p) ==
    /\ proc[p].pc = "start" /\ proc'[p].pc # "start" /\ Locking(p)
    /\ kl'[p] = NOLOCK

\* The step leaves the file, p's registry and version, p's lock state and
\* the result of p's last write as they were.
NothingChanged(p) ==
    /\ dk' = dk
    /\ proc'[p].dus = proc[p].dus /\ proc'[p].ver = proc[p].ver
    /\ LockKept(p)
    /\ proc'[p].wret = proc[p].wret

\* The return of an update by a command that holds no lock: the unlock at
\* its end changes nothing and the command goes on.
UnlockedReturn(p) ==
    (UpdateTryReturns(p) /\ proc[p].lk.locked = NOLOCK) => NothingChanged(p)

\* C19 as stated. Busy lock on best-effort update: when the nonblocking
\* exclusive lock cannot be obtained in _device_ids_update_try the update
\* is skipped, so the devices file is not written, the registry and the
\* version in memory and the command's own lock state stay as they were
\* and the command goes on without a failure; a blocking lock_devices_file
\* that cannot obtain the lock returns failure.
C19_BusyLockSkipsUpdate ==
    [][\A p \in Procs :
        /\ TryLockNotObtained(p) => (NothingChanged(p) /\ proc'[p].pc = "ut_unlock")
        /\ UnlockedReturn(p)
        /\ BlockingLockNotObtained(p)
              => (proc'[p].pc = "done" /\ proc'[p].granted = NOLOCK)]_vars

\* C19 amended. As above for a command run with neither sysinit nor
\* ignorelockingfailure.  With one of them a lock call that cannot obtain
\* the lock returns success: the update goes on to its version check (and
\* may write) without the lock, and the blocking call lets the command go
\* on to read the file.
C19_BusyLockSkipsUpdateUnlessIgnored ==
    [][\A p \in Procs :
        /\ TryLockNotObtained(p)
              => /\ NothingChanged(p)
                 /\ proc'[p].pc = IF LockFailureReturn(proc[p].cmd)
                                   THEN "ut_check" ELSE "ut_unlock"
        /\ UnlockedReturn(p)
        /\ BlockingLockNotObtained(p)
              => /\ proc'[p].pc = IF LockFailureReturn(proc[p].cmd)
                                   THEN "read" ELSE "done"
                 /\ proc'[p].lk.locked = NOLOCK /\ ~proc'[p].lk.fd]_vars

\* The try-lock of a command's first update has failed because another
\* command holds a lock; the update is about to return, nothing written.
C19_Witness ==
    \E p, q \in Procs :
        /\ p # q /\ Strict(p) /\ kl[q] # NOLOCK
        /\ proc[p].pc = "ut_unlock" /\ proc[p].ops = 1 /\ ~proc[p].held
        /\ proc[p].lk = [locked |-> NOLOCK, fd |-> FALSE, using |-> TRUE]
        /\ kl[p] = NOLOCK /\ dk.tmp = NoTmp /\ nf = 0
        /\ FileVersion(dk.file) = proc[p].known

\* A system call of p's device_ids_write fails in this step.
FailsAt(p, pc) == proc[p].pc = pc /\ proc'[p].pc # pc /\ nf' = nf + 1

\* The temp file of p holds less than p printed: its fflush or fclose
\* failed.
FlushFailed(p) == dk.tmp.owner = p /\ dk.tmp.text # proc[p].buf

\* C20. Write failure leaves the file alone: when fflush or fclose of the
\* temp file, the rename, or the fsync of the directory fails in
\* device_ids_write, the write is given up: the call returns failure and
\* the devices file at its final path is what it was before the call (this
\* call's rename has not replaced it and does not replace it).
C20_WriteFailureLeavesFile ==
    [][\A p \in Procs :
        /\ (proc[p].pc = "w_rename" /\ FlushFailed(p) /\ proc'[p].pc = "w_fsync")
              => (dk'.file = dk.file /\ ~proc'[p].wret)
        /\ FailsAt(p, "w_rename") => (dk'.file = dk.file /\ ~proc'[p].wret)
        /\ FailsAt(p, "w_fsync") => (dk'.file = dk.file /\ ~proc[p].wret)]_vars

\* Is the version in memory the one a later device_ids_version_unchanged
\* finds on disk (a file without a VERSION line is read as no version)?
InStep(file, ver) ==
    IF FileVersion(file) = NULL THEN ver = <<>> ELSE FileVersion(file) = ver

\* p's device_ids_write gives up on the temp file or the directory in this
\* step and returns 0.
OpenFails(p) == FailsAt(p, "w_begin") /\ ~proc'[p].wret

\* p's device_ids_write returns 0 in this step after its rename has failed.
ReturnsAfterFailedRename(p) ==
    /\ proc[p].pc = "w_fsync" /\ ~proc[p].wret
    /\ proc'[p].pc = proc[p].after

\* C32 (a failed write keeps the version in step with the disk): when
\* device_ids_write returns failure because the temp file or the directory
\* cannot be opened or because the rename fails, in a command that holds
\* the exclusive lock on a file nobody has replaced since the command read
\* it, the version in memory is the version of the VERSION line on disk.
C32_FailedWriteKeepsVersion ==
    [][AllStrict =>
        \A p \in Procs :
            ( /\ OpenFails(p) \/ ReturnsAfterFailedRename(p)
              /\ kl[p] = LOCK_EX
              /\ proc[p].known = FileVersion(dk.file) )
                => InStep(dk'.file, proc'[p].ver)]_vars

\* The part of C32 that the code keeps: a write that gives up on the temp
\* file or the directory leaves the version in memory as it was, in step
\* with the disk if it was in step.
FailedOpenKeepsVersion ==
    [][\A p \in Procs :
        OpenFails(p) =>
            /\ proc'[p].ver = proc[p].ver
            /\ dk'.file = dk.file]_vars

----------------------------------------------------------------------------
(* Specification SpecOps: one call of one operation.                        *)
(*                                                                         *)
(* The arguments of the call are drawn from the sets below; the one step    *)
(* of a behaviour applies the operation and records what it gave back.      *)

\* No result yet.
NoRes == <<"none">>

\* The commands device_ids_write is called by.  setup_devices leaves
\* pending_devices_file set only for a pvcreate or vgcreate that found no
\* system devices file, and then leaves the devices file disabled; the
\* other settings are free.
WriteCmds ==
    LET B == BOOLEAN
    IN  { [BaseCmd EXCEPT !.enable_devices_file = e, !.create_edit_devices_file = ce,
                          !.devicesfile = df, !.name_create = nc, !.test_mode = t] :
              e \in B, ce \in B, df \in B, nc \in B, t \in B }
        \cup
        { [BaseCmd EXCEPT !.enable_devices_file = FALSE, !.pending_devices_file = TRUE,
                          !.create_edit_devices_file = TRUE, !.name_create = TRUE,
                          !.test_mode = t] : t \in B }

\* A call of device_ids_write: the command, the file on disk, the version
\* in memory (that of the file, or none when the file was not read), the
\* registry, and whether the scan has seen a VG.
WriteCalls ==
    { [fn |-> "write", cmd |-> c, file |-> f, version |-> v, dus |-> R,
       vgs_seen |-> g, done |-> FALSE, res |-> NoRes] :
          c \in WriteCmds, f \in {NoFile, File_111, File_211},
          v \in {<<>>, copy_idline_str(l_version_111), copy_idline_str(l_version_211)},
          R \in {<<>>, <<du_sdb_p1>>}, g \in BOOLEAN }

\* The versions in memory that go with the file on disk.
WriteCallConsistent(k) ==
    k.version = <<>> \/ (k.file # NoFile /\ k.version = FileVersion(k.file))

DeviceIdsWriteCall ==
    /\ call.fn = "write" /\ ~call.done
    /\ call' = [call EXCEPT !.done = TRUE, !.res =
                  device_ids_write(call.cmd, call.version, call.file, call.dus,
                                   call.vgs_seen)]
    /\ UNCHANGED <<mainvars, lockvars, filevars, devtab>>

\* The call has returned, and it found no file and the devices file not
\* enabled.
WriteReturnedAbsentDisabled ==
    /\ call.fn = "write" /\ call.done
    /\ call.file = NoFile /\ ~call.cmd.enable_devices_file

StableEntry(i) ==
    use_devices[i].idtype # DEV_ID_TYPE_DEVNAME /\ use_devices[i].dev # 0
StableChecked(i) ==
    /\ StableEntry(i)
    /\ ~ValidateSkips([dus |-> use_devices, ds |-> devst], i, out'.scanned)
    /\ PersistentPasses(host, devst, use_devices[i].dev)

\* C27. Stable-kind validation: for a matched entry of a kind other than
\* devname whose device was scanned, read and passes the filter,
\* device_ids_validate sets the entry's pvid to the device's PVID when they
\* differ (no pvid when the device has none) and, unless the command sets
\* ignore_device_name_mismatch, its devname to the device's current name;
\* each such change marks the registry for update.
C27_StableKindValidation ==
    [][ValidateStep /\ cmd.enable_devices_file =>
         \A i \in DOMAIN use_devices :
            StableChecked(i) =>
               LET d == use_devices[i].dev
               IN  /\ use_devices'[i].pvid =
                         IF devst[d].pvid # <<>> THEN devst[d].pvid ELSE NULL
                   /\ ~cmd.ignore_device_name_mismatch
                         => use_devices'[i].devname = dev_name(d)
                   /\ (use_devices'[i].pvid # use_devices[i].pvid
                          \/ use_devices'[i].devname # use_devices[i].devname)
                         => out'.update_file /\ out'.invalid]_vars

\* A validation has given the WWID entry of /dev/sda the PVID read from the
\* device, which differs from the one in the file, and asked for an update.
C27_Witness ==
    /\ out.op = "validate" /\ out.update_file /\ out.fixed # {}
    /\ \E i \in out.fixed :
          /\ use_devices[i].idtype = DEV_ID_TYPE_SYS_WWID
          /\ use_devices[i].dev # 0
          /\ use_devices[i].pvid = devst[use_devices[i].dev].pvid
          /\ use_devices[i].pvid # du_sda_wwid.pvid

\* C28. Stable pairings are never undone by validation: for every entry of
\* a kind other than devname, device_ids_validate leaves idtype, idname, dev
\* and the matched flag of its device unchanged, whatever PVID the device
\* reports; only pvid and devname of such an entry can change.
C28_StablePairingsKept ==
    [][ValidateStep =>
         \A i \in DOMAIN use_devices :
            use_devices[i].idtype # DEV_ID_TYPE_DEVNAME =>
               /\ use_devices'[i].idtype = use_devices[i].idtype
               /\ use_devices'[i].idname = use_devices[i].idname
               /\ use_devices'[i].part = use_devices[i].part
               /\ use_devices'[i].dev = use_devices[i].dev
               /\ use_devices[i].dev # 0 =>
                     devst'[use_devices[i].dev].matched
                        = devst[use_devices[i].dev].matched]_vars

\* The part of C28 that does not depend on C1: the same for the entries
\* whose device is paired with no other entry.
StablePairingsKeptWhenUnique ==
    [][ValidateStep =>
         \A i \in DOMAIN use_devices :
            /\ use_devices[i].idtype # DEV_ID_TYPE_DEVNAME
            /\ \A j \in DOMAIN use_devices :
                  (j # i /\ use_devices[i].dev # 0) => use_devices[j].dev # use_devices[i].dev
            => /\ use_devices'[i].idtype = use_devices[i].idtype
               /\ use_devices'[i].idname = use_devices[i].idname
               /\ use_devices'[i].part = use_devices[i].part
               /\ use_devices'[i].dev = use_devices[i].dev
               /\ use_devices[i].dev # 0 =>
                     devst'[use_devices[i].dev].matched
                        = devst[use_devices[i].dev].matched]_vars

\* C24 as stated. Only lock holders write: with locking enabled, every
\* replacement of the devices file by device_ids_write, on the editing path
\* or the best-effort update path, commands run with sysinit or
\* ignorelockingfailure included, happens while the writing process holds
\* the exclusive flock on the lockfile.
C24_OnlyLockHoldersWrite ==
    [][\A p \in Procs : (Locking(p) /\ RenameOk(p)) => kl[p] = LOCK_EX]_vars

\* C24 amended. With locking enabled and neither sysinit nor
\* ignorelockingfailure, every replacement of the devices file happens while
\* the writing process holds the exclusive flock; a command run with sysinit
\* or ignorelockingfailure goes on after a failed lock request and can
\* replace the file without holding the lock.
C24_OnlyStrictLockHoldersWrite ==
    [][\A p \in Procs :
          (Locking(p) /\ Strict(p) /\ RenameOk(p))
              => kl[p] = LOCK_EX /\ proc[p].lk.locked = LOCK_EX]_vars

\* A reading command has replaced the file in its best-effort update while
\* it held the exclusive flock and another command was running.
C24_Witness ==
    \E p, q \in Procs :
        /\ p # q /\ Locking(p) /\ Strict(p) /\ proc[p].kind = "read"
        /\ proc[p].pc = "w_fsync" /\ proc[p].wret /\ kl[p] = LOCK_EX
        /\ proc[q].ops > 0

\* The devices as a command finds them before anything is matched.
NewDevs == [d \in AllDevs |-> NewDev]

\* The registry and devices after device e was added with PVID P1, and the
\* same with the entry's device gone (a "missing device").
AfterAdd(e) == device_id_add(BaseCmd, [dus |-> <<>>, ds |-> NewDevs], e, pv_1, "y").S
AfterAddMissing(e) ==
    [dus |-> <<[AfterAdd(e).dus[1] EXCEPT !.dev = 0]>>, ds |-> NewDevs]

\* A call of device_id_add(cmd, dev, pvid, NULL, NULL) on a registry with
\* one entry, with or without --yes, and the answer the user would give.
AddCalls ==
    { [fn |-> "add", cmd |-> [BaseCmd EXCEPT !.yes = y], S |-> S, d |-> d, pvid |-> pv,
       answer |-> a, done |-> FALSE, res |-> NoRes] :
          y \in BOOLEAN,
          S \in {AfterAdd(e) : e \in AllDevs} \cup {AfterAddMissing(e) : e \in AllDevs},
          d \in AllDevs, pv \in {pv_1, pv_2}, a \in {"y", "n"} }

\* The call with what the user saw of it: the prompt and the warnings.
DeviceIdAddCall ==
    /\ call.fn = "add" /\ ~call.done
    /\ \E id \in {AddId(call.d)} :
       \E r \in {device_id_add(call.cmd, call.S, call.d, call.pvid, call.answer)} :
          call' = [call EXCEPT !.done = TRUE, !.res =
                     [S |-> r.S, faults |-> r.faults,
                      prompted |-> AddPrompts(call.cmd,
                                       AddUpdateDu(call.S.dus, call.d, id, call.pvid)),
                      warns |-> AddWarns(call.S.dus, call.d, id, call.pvid)]]
    /\ UNCHANGED <<mainvars, lockvars, filevars, devtab>>

AddReturned == call.fn = "add" /\ call.done

\* Entry i is matched to another device than the one added and has the PVID
\* it is added with, or the identifier chosen for it.
CollidesOnPvid(i) ==
    call.S.dus[i].dev \notin {0, call.d} /\ call.S.dus[i].pvid = call.pvid
CollidesOnId(i) ==
    /\ call.S.dus[i].dev \notin {0, call.d}
    /\ call.S.dus[i].idtype = AddId(call.d).idtype
    /\ call.S.dus[i].idname = AddId(call.d).idname

\* The call has put a further entry on the registry.
EntryAdded == Len(call.res.S.dus) = Len(call.S.dus) + 1

\* C22 as stated. Add collision: when an entry matched to another device
\* has the PVID or the identifier of the device added, a new entry is added
\* only after the user was asked, unless --yes is in effect or the two
\* devices are partitions of one primary device, which is accepted without
\* a prompt.
C22_AddCollision ==
    AddReturned =>
        \A i \in DOMAIN call.S.dus :
           (CollidesOnPvid(i) \/ CollidesOnId(i)) =>
              IF SamePrimary(call.d, call.S.dus[i].dev) THEN ~call.res.prompted
              ELSE (EntryAdded /\ ~call.cmd.yes) => call.res.prompted

\* C22 amended. The user is asked, unless --yes is in effect, when the
\* device added has no entry yet and an entry with its PVID exists whose
\* identifier the device does not have; a refusal leaves the registry as it
\* was.  When only the identifier is already used by an entry of another
\* device, a new entry is added without a prompt, with a warning unless the
\* two devices are partitions of one primary device.
C22_AddCollisionOnPvidPrompts ==
    AddReturned =>
        \A i \in DOMAIN call.S.dus :
           /\ (CollidesOnPvid(i) /\ ~CollidesOnId(i))
                 => /\ call.res.prompted = ~call.cmd.yes
                    /\ EntryAdded = ~(call.res.prompted /\ call.answer = "n")
                    /\ ~EntryAdded => call.res.S.dus = call.S.dus
           /\ (CollidesOnId(i) /\ ~CollidesOnPvid(i))
                 => /\ ~call.res.prompted /\ EntryAdded
                    /\ call.res.warns.devid =
                          IF SamePrimary(call.d, call.S.dus[i].dev) THEN "partitions"
                          ELSE "used"
           /\ (CollidesOnId(i) /\ CollidesOnPvid(i)) => ~call.res.prompted

\* Without --yes a device was added whose PVID an entry of another device
\* has: the user was asked, agreed, and the registry has both entries.
C22_Witness ==
    /\ AddReturned /\ ~call.cmd.yes
    /\ CollidesOnPvid(1) /\ ~CollidesOnId(1)
    /\ call.res.prompted /\ call.answer = "y" /\ Len(call.res.S.dus) = 2
    /\ call.res.S.dus[1].pvid = call.res.S.dus[2].pvid

\* dev->id of device d in ds: the kind of its active identity, and the name
\* saved for that kind.
ActiveIdname(ds, d) == ds[d].ids[ds[d].id]

\* A mutant of dev_idname_for_metadata: the name of a devname identity is
\* given out as well.
dev_idname_of_any_kind(c, ds, d) ==
    IF ~c.enable_devices_file THEN NULL
    ELSE IF ds[d].id = DEV_ID_TYPE_NONE THEN NULL
    ELSE ActiveIdname(ds, d)

dev_idtype_for_metadata(c, ds, d) ==
    IF ~c.enable_devices_file THEN NULL
    ELSE IF ds[d].id = DEV_ID_TYPE_NONE \/ ds[d].id = DEV_ID_TYPE_DEVNAME THEN NULL
    ELSE IF idtype_to_str(ds[d].id) = s_unknown THEN NULL
    ELSE idtype_to_str(ds[d].id)

dev_idname_for_metadata(c, ds, d) ==
    IF ~c.enable_devices_file THEN NULL
    ELSE IF ds[d].id = DEV_ID_TYPE_NONE \/ ds[d].id = DEV_ID_TYPE_DEVNAME THEN NULL
    ELSE ActiveIdname(ds, d)

\* Every active identity of a device has a name (checked under Spec, whose
\* operations are the ones that set dev->id).
ActiveIdHasName ==
    \A d \in DOMAIN devst :
       devst[d].id # DEV_ID_TYPE_NONE => ActiveIdname(devst, d) \notin {UNSET, NULL}

\* The two hint functions called for a device, with the devices file enabled
\* or not, before any device has an identity or after a device was added.
HintCalls ==
    { [fn |-> "hints", cmd |-> [BaseCmd EXCEPT !.enable_devices_file = en],
       ds |-> ds, d |-> d, done |-> FALSE, res |-> NoRes] :
          en \in BOOLEAN,
          ds \in {NewDevs} \cup {AfterAdd(e).ds : e \in AllDevs},
          d \in AllDevs }

MetadataHintsCall ==
    /\ call.fn = "hints" /\ ~call.done
    /\ call' = [call EXCEPT !.done = TRUE, !.res =
                  [idtype |-> dev_idtype_for_metadata(call.cmd, call.ds, call.d),
                   idname |-> dev_idname_for_metadata(call.cmd, call.ds, call.d)]]
    /\ UNCHANGED <<mainvars, lockvars, filevars, devtab>>

HintsReturned == call.fn = "hints" /\ call.done

\* C23. Metadata hints: the kind and the name given for a device are both
\* present or both absent; they are absent when the devices file is
\* disabled, the device has no active identity, or that identity is of kind
\* devname, and otherwise they are the tag and the name of the device's
\* active identity.
C23_MetadataHints ==
    HintsReturned =>
        LET id == call.ds[call.d].id
            absent == \/ ~call.cmd.enable_devices_file
                      \/ id = DEV_ID_TYPE_NONE
                      \/ id = DEV_ID_TYPE_DEVNAME
        IN  /\ (call.res.idtype = NULL) = (call.res.idname = NULL)
            /\ absent => call.res.idtype = NULL /\ call.res.idname = NULL
            /\ ~absent => /\ call.res.idtype = idtype_to_str(id)
                           /\ call.res.idtype # s_unknown
                           /\ call.res.idname = call.ds[call.d].ids[id]
                           /\ call.res.idname \notin {UNSET, NULL}

\* With the devices file enabled the hints of a device with a WWID identity
\* were given: sys_wwid and the WWID.
C23_Witness ==
    /\ HintsReturned /\ call.cmd.enable_devices_file
    /\ call.ds[call.d].id = DEV_ID_TYPE_SYS_WWID
    /\ call.res.idtype = s_sys_wwid /\ call.res.idname = n_wwid

\* The entries a registry read from a file may hold for the devices of the
\* host: the entry each device was added with, an entry that names a dm
\* device by its other name, and an entry that lost its idname.
EntriesToMatch ==
    {[AfterAdd(e).dus[1] EXCEPT !.dev = 0] : e \in AllDevs}
        \cup {du_mapx, NewDu(DEV_ID_TYPE_DEVNAME, NULL, n_sdb, pv_1, 0, 0)}

\* _match_du_to_dev called for one entry and one device, on the first
\* attempt (nothing cached for the device) and on a later one (the cache as
\* the first attempt left it).
FirstAttempts ==
    {[dus |-> <<u>>, ds |-> NewDevs] : u \in EntriesToMatch}
MatchCalls ==
    { [fn |-> "match", S |-> S, d |-> d, later |-> later, done |-> FALSE, res |-> NoRes] :
          later \in {FALSE},
          S \in FirstAttempts, d \in AllDevs }
      \cup
    { [fn |-> "match", S |-> [dus |-> S.dus, ds |-> match_du_to_dev(S, 1, d).S.ds],
       d |-> d, later |-> later, done |-> FALSE, res |-> NoRes] :
          later \in {TRUE},
          S \in FirstAttempts, d \in AllDevs }

MatchDuToDevCall ==
    /\ call.fn = "match" /\ ~call.done
    /\ \E r \in {match_du_to_dev(call.S, 1, call.d)} :
          call' = [call EXCEPT !.done = TRUE, !.res = r]
    /\ UNCHANGED <<mainvars, lockvars, filevars, devtab>>

MatchReturned == call.fn = "match" /\ call.done

\* The pairing predicate for entry u and device d: u has a kind and a name,
\* the kind fits the major number of d, the partition numbers agree, and
\* the identifier of that kind read from d is u's name, or u is of kind
\* devname, d is a dm device and u's name is a name of the same dm device.
SameDmDevice(u, d) ==
    /\ u.idtype = DEV_ID_TYPE_DEVNAME /\ DevTab[d].major = MajorDm
    /\ \/ u.idname = dev_name(d)
       \/ stat_rdev(u.idname) = <<MajorDm, DevTab[d].minor>>
Pairs(u, d) ==
    /\ u.idtype # DEV_ID_TYPE_NONE /\ u.idname # NULL
    /\ idtype_compatible_with_major_number(u.idtype, DevTab[d].major)
    /\ DevTab[d].part = u.part
    /\ \/ device_id_system_read(d, u.idtype) = u.idname
       \/ SameDmDevice(u, d)

\* What a match sets and a mismatch leaves alone: the entry's device, the
\* device's active identity and its matched flag.
PairingOf(S, d) == <<S.dus[1].dev, S.ds[d].id, S.ds[d].matched>>

\* C25. Pairing predicate: _match_du_to_dev pairs entry u with device d if
\* and only if the pairing predicate holds for them; on a match it sets
\* u.dev, d's active identity and d's matched flag together, on a mismatch
\* it changes none of them.
C25_PairingPredicate ==
    MatchReturned =>
        /\ call.res.ret = Pairs(call.S.dus[1], call.d)
        /\ call.res.ret =>
               PairingOf(call.res.S, call.d) = <<call.d, call.S.dus[1].idtype, TRUE>>
        /\ ~call.res.ret => PairingOf(call.res.S, call.d) = PairingOf(call.S, call.d)

\* The part of C25 that does not depend on C26: the same on every attempt
\* but the first one of a devname entry for a dm device.
PairingPredicateWithCache ==
    (MatchReturned /\ (call.later \/ ~SameDmDevice(call.S.dus[1], call.d)))
        => C25_PairingPredicate

\* C26. Pairing does not depend on cache state: the result for an entry and
\* a device is the same on the first attempt, with nothing cached for the
\* device, and on the next one, with the identity the first attempt cached;
\* the dm name equivalence is applied on the first attempt as well.
C26_PairingIndependentOfCache ==
    (MatchReturned /\ ~call.later)
        => match_du_to_dev(call.res.S, 1, call.d).ret = call.res.ret

\* The registry and devices of a command that has read a file, matched its
\* entries, and, by the time of the search, scanned and validated them.
AfterMatch(c, R) ==
    device_ids_match(c, [dus |-> R, ds |-> [d \in Devs |-> NewDev]])
AfterValidate(c, h, R) ==
    Bind(AfterMatch(c, R), LAMBDA S :
    Bind(device_ids_validate(c, h, S.dus, ScanDevs(h, S.ds), ScanList(TRUE, {})),
         LAMBDA V : [dus |-> V.dus, ds |-> V.ds]))

SearchModes == {"none", "auto", "all"}

\* device_ids_find_renamed_devs called in each search mode, on each host,
\* for each registry a file may hold, with or without the file
\* searched_devnames.
FindCmd(mode) == [BaseCmd EXCEPT !.search_for_devnames = mode]
FindCalls ==
    { [fn |-> "find", cmd |-> FindCmd(mode), host |-> h, S |-> S,
       searched |-> searched, done |-> FALSE, res |-> NoRes] :
          mode \in SearchModes, h \in MainHosts, searched \in BOOLEAN,
          S \in {AfterMatch(BaseCmd, R) : R \in MainRegistries} }
      \cup
    { [fn |-> "find", cmd |-> FindCmd(mode), host |-> h, S |-> AfterValidate(BaseCmd, h, R),
       searched |-> searched, done |-> FALSE, res |-> NoRes] :
          mode \in SearchModes, h \in MainHosts, searched \in BOOLEAN,
          R \in MainRegistries }

FindRenamedDevsCall ==
    /\ call.fn = "find" /\ ~call.done
    /\ \E U \in {device_ids_find_renamed_devs(call.cmd, call.host, call.S.dus,
                                               call.S.ds, call.searched)} :
          call' = [call EXCEPT !.done = TRUE, !.res = U]
    /\ UNCHANGED <<mainvars, lockvars, filevars, devtab>>

FindReturned == call.fn = "find" /\ call.done

\* A stable identity of device d: a cached identity of a kind other than
\* devname, or a WWID, a serial, a loop file, a DM uuid with one of the
\* prefixes mpath-, CRYPT-, LVM-, or an md uuid.
StableIdentity(ds, d) ==
    \/ \E t \in IdTypes \ {DEV_ID_TYPE_DEVNAME} : ds[d].ids[t] \notin {UNSET, NULL}
    \/ \E t \in {DEV_ID_TYPE_SYS_WWID, DEV_ID_TYPE_SYS_SERIAL, DEV_ID_TYPE_LOOP_FILE,
                  DEV_ID_TYPE_MPATH_UUID, DEV_ID_TYPE_CRYPT_UUID, DEV_ID_TYPE_LVMLV_UUID,
                  DEV_ID_TYPE_MD_UUID} : SystemIds(d)[t] # NULL

\* The search has read device d, or pointed an entry at it.
WasRead(d) == d \in call.res.reads
RePaired(d) ==
    \/ d \in call.res.dev_list
    \/ \E i \in DOMAIN call.S.dus : call.res.dus[i].dev = d /\ call.S.dus[i].dev # d
    \/ call.res.ds[d].matched /\ ~call.S.ds[d].matched

\* C29. Rename search scope: with search_for_devnames=none the search reads
\* no device and changes no entry; with auto a candidate device that has a
\* stable identity is never read and never re-paired; a device that carries
\* the matched flag is never a candidate, in any mode.
C29_RenameSearchScope ==
    FindReturned =>
        /\ call.cmd.search_for_devnames = "none"
              => call.res.reads = {} /\ call.res.dus = call.S.dus
        /\ call.cmd.search_for_devnames = "auto"
              => \A d \in Devs :
                    StableIdentity(call.S.ds, d) => ~WasRead(d) /\ ~RePaired(d)
        /\ \A d \in Devs : call.S.ds[d].matched => ~WasRead(d) /\ ~RePaired(d)

\* A search in mode auto has left the unmatched /dev/sda, which has a WWID,
\* unread, and has read another device and pointed an entry at it.
C29_Witness ==
    /\ FindReturned /\ call.cmd.search_for_devnames = "auto"
    /\ \E d \in Devs :
          ~call.S.ds[d].matched /\ StableIdentity(call.S.ds, d) /\ ~WasRead(d)
    /\ \E e \in Devs : WasRead(e) /\ RePaired(e) /\ ~StableIdentity(call.S.ds, e)

\* The names of the kinds a caller may ask for, an unknown one included, and
\* the name it may give.
n_given == <<"x", "1">>
KindArgs == {NULL, s_unknown} \cup {idtype_to_str(t) : t \in IdTypes}

\* device_id_add(cmd, dev, pvid, idtype_arg, id_arg) on an empty registry,
\* for each device of the host.
KindCalls ==
    { [fn |-> "kind", cmd |-> BaseCmd, S |-> [dus |-> <<>>, ds |-> NewDevs], d |-> d,
       idtype_arg |-> t, id_arg |-> n, done |-> FALSE, res |-> NoRes] :
          d \in AllDevs, t \in KindArgs, n \in {NULL, n_given} }

DeviceIdAddKindCall ==
    /\ call.fn = "kind" /\ ~call.done
    /\ \E r \in {device_id_add_args(call.cmd, call.S, call.d, pv_1,
                                     call.idtype_arg, call.id_arg, "y")} :
          call' = [call EXCEPT !.done = TRUE, !.res = r]
    /\ UNCHANGED <<mainvars, lockvars, filevars, devtab>>

KindReturned == call.fn = "kind" /\ call.done

\* The kinds in the order of the selection, each with the name it would
\* give for device d, NULL when the kind is unavailable: the kind asked for
\* with the name given, the kind asked for read from sysfs, the DM uuid
\* with prefix mpath-, CRYPT-, LVM- for a dm device, the backing file for a
\* loop device, md/uuid for an MD device, then WWID, serial and devname.
KindAsked(t) == IF t = NULL THEN DEV_ID_TYPE_NONE ELSE idtype_from_str(t)
DmUuidWith(d, prefix) ==
    IF DevTab[d].major = MajorDm /\ DevTab[d].dm_uuid # <<>>
          /\ dm_uuid_has_prefix(DevTab[d].dm_uuid, prefix)
    THEN DevTab[d].dm_uuid ELSE NULL
OnMajor(d, major, t) ==
    IF DevTab[d].major = major THEN device_id_system_read(d, t) ELSE NULL
SelectionOrder(d, t, n) ==
    << [idtype |-> KindAsked(t),
        idname |-> IF KindAsked(t) # DEV_ID_TYPE_NONE THEN n ELSE NULL],
       [idtype |-> KindAsked(t),
        idname |-> IF KindAsked(t) # DEV_ID_TYPE_NONE
                   THEN device_id_system_read(d, KindAsked(t)) ELSE NULL],
       [idtype |-> DEV_ID_TYPE_MPATH_UUID, idname |-> DmUuidWith(d, s_mpath_)],
       [idtype |-> DEV_ID_TYPE_CRYPT_UUID, idname |-> DmUuidWith(d, s_CRYPT_)],
       [idtype |-> DEV_ID_TYPE_LVMLV_UUID, idname |-> DmUuidWith(d, s_LVM_)],
       [idtype |-> DEV_ID_TYPE_LOOP_FILE,
        idname |-> OnMajor(d, MajorLoop, DEV_ID_TYPE_LOOP_FILE)],
       [idtype |-> DEV_ID_TYPE_MD_UUID,
        idname |-> OnMajor(d, MajorMd, DEV_ID_TYPE_MD_UUID)],
       [idtype |-> DEV_ID_TYPE_SYS_WWID,
        idname |-> device_id_system_read(d, DEV_ID_TYPE_SYS_WWID)],
       [idtype |-> DEV_ID_TYPE_SYS_SERIAL,
        idname |-> device_id_system_read(d, DEV_ID_TYPE_SYS_SERIAL)],
       [idtype |-> DEV_ID_TYPE_DEVNAME, idname |-> dev_name(d)] >>
FirstAvailable(order) ==
    order[CHOOSE k \in DOMAIN order :
             /\ order[k].idname # NULL
             /\ \A j \in 1..(k - 1) : order[j].idname = NULL]

\* C30. Identity-kind selection on add: device_id_add gives the new entry
\* the first available kind in the order of the selection, an unavailable
\* kind falling through to the next one, and the selection always ends with
\* some kind and a non-empty name.
C30_KindSelection ==
    KindReturned =>
        LET du == call.res.S.dus[1]
            id == FirstAvailable(SelectionOrder(call.d, call.idtype_arg, call.id_arg))
        IN  /\ Len(call.res.S.dus) = 1
            /\ du.idtype = id.idtype /\ du.idname = id.idname
            /\ du.idtype \in IdTypes
            /\ du.idname \notin {NULL, UNSET, <<>>}
            /\ call.res.S.ds[call.d].id = du.idtype
            /\ ActiveIdname(call.res.S.ds, call.d) = du.idname

\* No kind was asked for and the device has a QEMU WWID, which is not
\* used, and a serial number: the entry is of kind sys_serial.
C30_Witness ==
    /\ KindReturned /\ call.idtype_arg = NULL
    /\ strstr(DevTab[call.d].wwid, s_QEMU) # 0
    /\ call.res.S.dus[1].idtype = DEV_ID_TYPE_SYS_SERIAL
    /\ call.res.S.dus[1].idname = Underscored(DevTab[call.d].serial)

----------------------------------------------------------------------------
(* Repeated match attempts on one device.                                   *)

\* How many times _match_du_to_dev is called for the device.
MaxAttempts == 3

\* Two entries of one kind and one device with nothing cached; reads counts
\* the calls of device_id_system_read per kind.
AttemptCalls ==
    { [fn |-> "attempts", S |-> [dus |-> uv, ds |-> NewDevs], d |-> d,
       reads |-> [t \in IdTypes |-> 0], n |-> 0, done |-> FALSE, res |-> NoRes] :
          uv \in {x \in EntriesToMatch \X EntriesToMatch : x[1].idtype = x[2].idtype},
          d \in AllDevs }

\* One more _match_du_to_dev(cmd, du, dev), for either entry: its result,
\* whether it read from the system, and what was cached before it.
MatchAttemptCall ==
    /\ call.fn = "attempts" /\ call.n < MaxAttempts
    /\ \E i \in 1..2 :
       \E r \in {match_du_to_dev(call.S, i, call.d)} :
       \E rd \in {match_reads(call.S, i, call.d)} :
          call' = [call EXCEPT
             !.S = r.S,
             !.reads[call.S.dus[i].idtype] = IF rd THEN @ + 1 ELSE @,
             !.n = @ + 1, !.done = (call.n + 1 = MaxAttempts),
             !.res = [ret |-> r.ret, i |-> i, read |-> rd,
                      idtype |-> call.S.dus[i].idtype,
                      cached |-> call.S.ds[call.d].ids[call.S.dus[i].idtype]]]
    /\ UNCHANGED <<mainvars, lockvars, filevars, devtab>>

Attempted == call.fn = "attempts" /\ call.n > 0

\* The count of reads is the count of changes to the cache: an attempt
\* that reads found nothing cached and caches what it read, an attempt
\* that does not read leaves the cache as it was.
CacheChangesOnlyByRead ==
    Attempted =>
        /\ call.res.read =>
              /\ call.res.cached = UNSET
              /\ call.S.ds[call.d].ids[call.res.idtype]
                    = device_id_system_read(call.d, call.res.idtype)
        /\ ~call.res.read => call.S.ds[call.d].ids[call.res.idtype] = call.res.cached

\* C34 (negative identity cache): during any sequence of match attempts the
\* identity of a kind is read from the system at most once per device;
\* after a read that finds none, the device's cache holds the kind with no
\* name; and an attempt that finds the kind cached with no name returns
\* no-match without reading again.
C34_NegativeIdentityCache ==
    Attempted =>
        /\ \A t \in IdTypes : call.reads[t] <= 1
        /\ (call.res.read /\ device_id_system_read(call.d, call.res.idtype) = NULL)
              => call.S.ds[call.d].ids[call.res.idtype] = NULL
        /\ call.res.cached = NULL
              => /\ ~call.res.ret /\ ~call.res.read
                 /\ call.S.ds[call.d].ids[call.res.idtype] = NULL
                 /\ call.reads[call.res.idtype] = 1

\* The third attempt with an entry of a kind the device has no identity
\* of: the first one read and found nothing, the third one found the
\* negative cached and returned no-match.
C34_Witness ==
    /\ Attempted /\ call.n = 3
    /\ call.res.cached = NULL /\ ~call.res.ret /\ ~call.res.read
    /\ call.res.idtype = DEV_ID_TYPE_SYS_WWID
    /\ call.reads[DEV_ID_TYPE_SYS_WWID] = 1
    /\ idtype_compatible_with_major_number(DEV_ID_TYPE_SYS_WWID, DevTab[call.d].major)

----------------------------------------------------------------------------
(* The lock calls of one process, in any order.                             *)

\* How many lock calls one process makes.
MaxLockOps == 3

\* The settings the lock calls read.
LockCmds ==
    { [BaseCmd EXCEPT !.enable_devices_file = e, !.nolocking = nl,
                      !.sysinit = si, !.ignorelockingfailure = il] :
          e \in BOOLEAN, nl \in BOOLEAN, si \in BOOLEAN, il \in BOOLEAN }

\* Does _lock_devices_file get a descriptor from open()?
OpenedByLock(c, st, mode, sys) ==
    /\ c.enable_devices_file /\ ~c.nolocking
    /\ ~AlreadyLocked(st, mode)
    /\ st.locked = NOLOCK /\ ~st.fd
    /\ sys # "open_fail"

\* A mutant of ClosedByLock: the descriptor is kept open when flock fails.
ClosedByLockNever(c, st, mode, sys) == FALSE

\* Does _lock_devices_file close the descriptor it opened (flock failed)?
ClosedByLock(c, st, mode, sys) ==
    OpenedByLock(c, st, mode, sys) /\ sys = "flock_fail"

\* devices_file_exit(cmd): the lock state after the call.
devices_file_exit(c, st) ==
    IF c.enable_devices_file /\ st.fd THEN unlock_devices_file(c, st) ELSE st

\* The lock calls: lock_devices_file and lock_devices_file_try in both
\* modes, unlock_devices_file, devices_file_exit.
LockOps ==
    { [op |-> o, mode |-> m] : o \in {"lock", "try"}, m \in {LOCK_SH, LOCK_EX} }
       \cup { [op |-> "unlock", mode |-> NOLOCK], [op |-> "exit", mode |-> NOLOCK] }

\* A process that has made no lock call yet: st is the bookkeeping
\* (_devices_file_locked, _devices_fd, _using_devices_file), kmode the
\* flock the kernel holds through the process's descriptor, fds the number
\* of descriptors of the lock file the process has open.
LockOpsCalls ==
    { [fn |-> "lockops", cmd |-> c, st |-> Unlocked, kmode |-> NOLOCK, fds |-> 0,
       n |-> 0, done |-> FALSE, res |-> NoRes] : c \in LockCmds }

\* One lock call: what it returns (ret, and got: the lock is held when it
\* returns), the bookkeeping before it, and the state after it.
LockOpsCall ==
    /\ call.fn = "lockops" /\ call.n < MaxLockOps
    /\ \E o \in LockOps, sys \in SysResults :
         /\ o.op \in {"unlock", "exit"} => sys = "ok"
         /\ IF o.op \in {"lock", "try"}
            THEN \E r \in {lock_devices_file_(call.cmd, call.st, o.mode, sys)} :
                 call' = [call EXCEPT
                    !.st = r.st,
                    !.kmode = IF r.flocked THEN o.mode ELSE @,
                    !.fds = @ + (IF OpenedByLock(call.cmd, call.st, o.mode, sys) THEN 1 ELSE 0)
                              - (IF ClosedByLock(call.cmd, call.st, o.mode, sys) THEN 1 ELSE 0),
                    !.n = @ + 1, !.done = (call.n + 1 = MaxLockOps),
                    !.res = [op |-> o.op, mode |-> o.mode, sys |-> sys, ret |-> r.ret,
                             got |-> r.flocked \/ r.held, before |-> call.st]]
            ELSE \E st1 \in {IF o.op = "unlock" THEN unlock_devices_file(call.cmd, call.st)
                              ELSE devices_file_exit(call.cmd, call.st)} :
                 call' = [call EXCEPT
                    !.st = st1,
                    !.kmode = IF call.st.fd /\ ~st1.fd THEN NOLOCK ELSE @,
                    !.fds = IF call.st.fd /\ ~st1.fd THEN @ - 1 ELSE @,
                    !.n = @ + 1, !.done = (call.n + 1 = MaxLockOps),
                    !.res = [op |-> o.op, mode |-> o.mode, sys |-> sys, ret |-> TRUE,
                             got |-> FALSE, before |-> call.st]]
    /\ UNCHANGED <<mainvars, lockvars, filevars, devtab>>

\* The bookkeeping agrees with the descriptor and with the kernel: the
\* recorded mode is set exactly when the descriptor is open, the open
\* descriptor holds a flock of the recorded mode, and no other descriptor
\* of the lock file is open.
LockBookkeepingConsistent ==
    /\ (call.st.locked # NOLOCK) <=> call.st.fd
    /\ call.st.fd => call.kmode = call.st.locked
    /\ ~call.st.fd => call.kmode = NOLOCK
    /\ call.fds = IF call.st.fd THEN 1 ELSE 0

\* The last call asked for the lock, with locking in use, and did not get it.
AcquisitionFailed ==
    /\ call.fn = "lockops" /\ call.n > 0
    /\ call.res.op \in {"lock", "try"}
    /\ call.cmd.enable_devices_file /\ ~call.cmd.nolocking
    /\ ~call.res.got

\* C33 as stated (lock bookkeeping is consistent): after any sequence of
\* lock_devices_file, lock_devices_file_try, unlock_devices_file and
\* devices_file_exit in one process the recorded mode is set exactly when
\* the descriptor is open, the open descriptor holds a flock of the
\* recorded mode, and a failed acquisition leaves both unset and leaks no
\* descriptor.
C33_LockBookkeeping ==
    call.fn = "lockops" =>
        /\ LockBookkeepingConsistent
        /\ AcquisitionFailed => (call.st.locked = NOLOCK /\ ~call.st.fd)

\* C33 amended: the same, but a failed acquisition leaves the recorded
\* mode and the descriptor as they were before the call: both unset when
\* the process held no lock, and the lock of the other mode, still held,
\* when the process asked for a mode other than the one it holds.
C33_LockBookkeepingKept ==
    call.fn = "lockops" =>
        /\ LockBookkeepingConsistent
        /\ AcquisitionFailed =>
              /\ call.st.locked = call.res.before.locked
              /\ call.st.fd = call.res.before.fd
              /\ call.res.before.locked = NOLOCK => (call.st.locked = NOLOCK /\ ~call.st.fd)
              /\ call.res.before.locked # NOLOCK => call.res.mode # call.res.before.locked

\* A process took the lock, released it, and its next acquisition failed
\* in flock: nothing is recorded and no descriptor is open.
C33_Witness ==
    /\ call.fn = "lockops" /\ call.n = 3
    /\ AcquisitionFailed /\ call.res.sys = "flock_fail"
    /\ call.res.before = [locked |-> NOLOCK, fd |-> FALSE, using |-> TRUE]
    /\ call.st.locked = NOLOCK /\ ~call.st.fd /\ call.fds = 0 /\ call.kmode = NOLOCK

----------------------------------------------------------------------------
(* The multipath component detector (src/lib/device/dev-mpath.c).           *)

\* What may be listed in a holders directory: for each holder the device
\* number stat("/dev/<holder>") gives (major "none" when stat fails) and
\* the dm/uuid sysfs holds for it: a multipath device, a logical volume, a
\* partition mapped over a multipath device, an MD array, a holder whose
\* node is missing.
Holders == <<
    [major |-> MajorDm, minor |-> 1, uuid |-> u_mpath],
    [major |-> MajorDm, minor |-> 2, uuid |-> u_lvm],
    [major |-> MajorDm, minor |-> 3, uuid |-> u_part_mpath],
    [major |-> MajorMd, minor |-> 0, uuid |-> <<>>],
    [major |-> "none", minor |-> 0, uuid |-> <<>>] >>

\* The dm minor numbers of the holders.
DmMinors == 1..3

\* The holders directories: no holder, one holder, two holders in either
\* order of readdir.
HolderLists ==
    {<<>>} \cup {<<h>> : h \in DOMAIN Holders}
           \cup {hk \in (DOMAIN Holders) \X (DOMAIN Holders) : hk[1] # hk[2]}

\* _minor_hash_tab before any check: nothing saved for any dm minor.
NoMinors == [m \in DmMinors |-> 0]

\* _get_sysfs_dm_mpath(dt, sysfs_dir, holder_name): does dm/uuid of the
\* holder begin with "mpath-"?  uuid is <<>> when the attribute cannot be
\* read.
get_sysfs_dm_mpath(uuid) == HasPrefix(uuid, s_mpath_)

\* The lookup in _minor_hash_tab: 0 when there is no table or nothing is
\* saved for the minor.
SavedResult(has_tab, tab, minor) == IF has_tab THEN tab[minor] ELSE 0

\* The readdir loop of _dev_is_mpath_component_sysfs over the holders hs:
\* the result and the table afterwards.
RECURSIVE HoldersLoop(_, _, _)
HoldersLoop(has_tab, tab, hs) ==
    IF hs = <<>> THEN [ret |-> FALSE, tab |-> tab]
    ELSE Bind(Holders[Head(hs)], LAMBDA h :
         IF h.major # MajorDm THEN HoldersLoop(has_tab, tab, Tail(hs))
         ELSE IF SavedResult(has_tab, tab, h.minor) > 0
         THEN [ret |-> SavedResult(has_tab, tab, h.minor) = 2, tab |-> tab]
         ELSE IF get_sysfs_dm_mpath(h.uuid)
         THEN [ret |-> TRUE, tab |-> IF has_tab THEN [tab EXCEPT ![h.minor] = 2] ELSE tab]
         ELSE HoldersLoop(has_tab, IF has_tab THEN [tab EXCEPT ![h.minor] = 1] ELSE tab,
                          Tail(hs)))

\* _dev_is_mpath_component_sysfs(cmd, dev, &mpath_devno).  dev.scsi: the
\* major is SCSI or the device is NVMe; dev.primary: what
\* dev_get_primary_dev returns (0 error, 1 primary, 2 partition);
\* dev.holders: the holders directory of the primary device.
dev_is_mpath_component_sysfs(has_tab, tab, dev) ==
    IF ~dev.scsi THEN [ret |-> FALSE, tab |-> tab]
    ELSE IF dev.primary = 0 THEN [ret |-> FALSE, tab |-> tab]
    ELSE HoldersLoop(has_tab, tab, dev.holders)

\* The devices the holders check is called for: a SCSI disk with each of
\* the holders directories, a device of another major, a partition of a
\* SCSI disk (its disk's holders are looked at), and a device whose
\* primary device cannot be found.
HolderDevs ==
    { [scsi |-> TRUE, primary |-> 1, holders |-> hs] : hs \in HolderLists }
      \cup { [scsi |-> FALSE, primary |-> 1, holders |-> hs] : hs \in {<<>>, <<1>>} }
      \cup { [scsi |-> TRUE, primary |-> pr, holders |-> hs] :
                 pr \in {0, 2}, hs \in {<<1>>, <<2, 1>>} }

\* The other disks of the host that are checked in between.
OtherDevs ==
    { [scsi |-> TRUE, primary |-> 1, holders |-> hs] : hs \in {<<1>>, <<2>>, <<3>>} }

\* How many times the holders check is called.
MaxChecks == 3

\* A command before its first check, with the table dev_mpath_init made
\* or, when it was not called, without one.  first is what the first
\* check of dev returned ("none" before it).
HoldersCalls ==
    { [fn |-> "holders", has_tab |-> ht, tab |-> NoMinors, dev |-> dev, other |-> o,
       n |-> 0, first |-> "none", done |-> FALSE, res |-> NoRes] :
          ht \in BOOLEAN, dev \in HolderDevs, o \in OtherDevs }

\* One call of _dev_is_mpath_component_sysfs, for the device or for the
\* other one: what it returned and the table it found.
HoldersCheckCall ==
    /\ call.fn = "holders" /\ call.n < MaxChecks
    /\ \E which \in {"dev", "other"} :
       \E dev \in {IF which = "dev" THEN call.dev ELSE call.other} :
       \E r \in {dev_is_mpath_component_sysfs(call.has_tab, call.tab, dev)} :
          call' = [call EXCEPT
             !.tab = r.tab,
             !.n = @ + 1, !.done = (call.n + 1 = MaxChecks),
             !.first = IF which = "dev" /\ @ = "none"
                       THEN (IF r.ret THEN "yes" ELSE "no") ELSE @,
             !.res = [dev |-> dev, which |-> which, ret |-> r.ret, before |-> call.tab]]
    /\ UNCHANGED <<mainvars, lockvars, filevars, devtab>>

HoldersChecked == call.fn = "holders" /\ call.n > 0

\* Is some holder of the list a dm device whose uuid begins with mpath-,
\* directly or behind a partN- prefix?
HasMpathHolder(hs) ==
    \E j \in DOMAIN hs :
        /\ Holders[hs[j]].major = MajorDm
        /\ dm_uuid_has_prefix(Holders[hs[j]].uuid, s_mpath_)

\* The same without the partN- prefix.
HasPlainMpathHolder(hs) ==
    \E j \in DOMAIN hs :
        /\ Holders[hs[j]].major = MajorDm
        /\ HasPrefix(Holders[hs[j]].uuid, s_mpath_)

\* C36 (sysfs-holders rule): the first holders check of a command, for a
\* SCSI or NVMe device, is positive exactly when some entry of its holders
\* directory is a dm device whose dm/uuid begins with mpath-, also behind
\* a partN- prefix; for a device of another major it is negative.
C36_HoldersRule ==
    (HoldersChecked /\ call.n = 1 /\ call.res.dev.primary # 0) =>
        call.res.ret = (call.res.dev.scsi /\ HasMpathHolder(call.res.dev.holders))

\* The part of C36 the code keeps: the same with the prefix at the very
\* beginning of dm/uuid only.
HoldersRuleWithoutPartPrefix ==
    (HoldersChecked /\ call.n = 1 /\ call.res.dev.primary # 0) =>
        call.res.ret = (call.res.dev.scsi /\ HasPlainMpathHolder(call.res.dev.holders))

\* C37 (memoisation is transparent): every holders check of a device
\* returns what the first check of that device returned and what the check
\* gives without the table.
C37_MemoTransparent ==
    (HoldersChecked /\ call.res.which = "dev") =>
        /\ call.res.ret = dev_is_mpath_component_sysfs(FALSE, NoMinors, call.dev).ret
        /\ call.first = IF call.res.ret THEN "yes" ELSE "no"

\* The part of C37 the code keeps: a saved positive gives the answer the
\* check without the table gives, and without a table every check does.
MemoTransparentWithoutNegatives ==
    (HoldersChecked /\ \A m \in DmMinors : call.res.before[m] # 1) =>
        call.res.ret = dev_is_mpath_component_sysfs(FALSE, NoMinors, call.res.dev).ret

\* _dev_in_wwid_file(cmd, dev): is the value behind the first '.' of the
\* device's device/wwid in the WWID table?  has_set is _wwid_hash_tab !=
\* NULL; sysbuf is <<>> when the attribute is missing or empty.
dev_in_wwid_file(has_set, set, sysbuf) ==
    /\ has_set
    /\ sysbuf # <<>>
    /\ strchr(sysbuf, ".") # 0
    /\ From(sysbuf, strchr(sysbuf, ".") + 1) \in set

\* What udev knows about a device: nothing (dev_ext_get fails), ID_FS_TYPE
\* mpath_member, DM_MULTIPATH_DEVICE_PATH 1, or neither property.
UdevInfos == {"none", "mpath_member", "device_path", "other"}

\* _dev_is_mpath_component_udev(dev); built without UDEV_SYNC_SUPPORT it
\* returns 0.
dev_is_mpath_component_udev(udev_support, udev) ==
    udev_support /\ udev \in {"mpath_member", "device_path"}

DEV_EXT_NONE == "DEV_EXT_NONE"
DEV_EXT_UDEV == "DEV_EXT_UDEV"

\* A mutant of SourceIsUdev: udev is asked whatever the source.
SourceIsAny(src) == TRUE

\* external_device_info_source() == DEV_EXT_UDEV
SourceIsUdev(src) == src = DEV_EXT_UDEV

\* dev_is_mpath_component(cmd, dev, &holder_devno): the result and the
\* minor table afterwards.
dev_is_mpath_component(k, dev) ==
    Bind(dev_is_mpath_component_sysfs(k.has_tab, k.tab, dev), LAMBDA r :
        IF r.ret THEN r
        ELSE IF dev_in_wwid_file(k.has_set, k.set, dev.wwid) THEN [r EXCEPT !.ret = TRUE]
        ELSE IF SourceIsUdev(k.src)
        THEN [r EXCEPT !.ret = dev_is_mpath_component_udev(k.udev_support, dev.udev)]
        ELSE r)

s_5 == <<"5">>
w_naa7 == <<"n", "a", "a", ".", "7">>
w_nodot == <<"n", "a", "a", "5">>

\* The devices the detector is called for.
MpathDevs ==
    { [scsi |-> sc, primary |-> 1, holders |-> hs, wwid |-> w, udev |-> u] :
          sc \in BOOLEAN, hs \in {<<>>, <<1>>, <<2>>},
          w \in {<<>>, n_wwid, w_naa7, w_nodot}, u \in UdevInfos }

\* The detector called once: with the table of WWIDs that dev_mpath_init
\* left (none, an empty one, one holding the WWID of a disk), with either
\* source of external information, built with and without udev.
MpathCalls ==
    { [fn |-> "mpath", has_tab |-> TRUE, tab |-> NoMinors, has_set |-> hs[1], set |-> hs[2],
       src |-> src, udev_support |-> us, dev |-> dev, done |-> FALSE, res |-> NoRes] :
          hs \in {<<FALSE, {}>>, <<TRUE, {}>>, <<TRUE, {s_5}>>},
          src \in {DEV_EXT_NONE, DEV_EXT_UDEV}, us \in BOOLEAN, dev \in MpathDevs }

DevIsMpathComponentCall ==
    /\ call.fn = "mpath" /\ ~call.done
    /\ \E r \in {dev_is_mpath_component(call, call.dev)} :
          call' = [call EXCEPT !.done = TRUE, !.tab = r.tab, !.res = r]
    /\ UNCHANGED <<mainvars, lockvars, filevars, devtab>>

MpathReturned == call.fn = "mpath" /\ call.done

\* The three checks for the device of the call, each on its own.
HoldersPositive == dev_is_mpath_component_sysfs(TRUE, NoMinors, call.dev).ret
WwidPositive == dev_in_wwid_file(call.has_set, call.set, call.dev.wwid)
UdevPositive == dev_is_mpath_component_udev(call.udev_support, call.dev.udev)

\* C35 (multipath detection order): dev_is_mpath_component is positive if
\* and only if the holders check is positive, or the WWID check is, or the
\* source of external information is udev and the udev check is positive;
\* when the source is not udev, what udev knows changes nothing.
C35_DetectionOrder ==
    MpathReturned =>
        /\ call.res.ret = (\/ HoldersPositive
                           \/ WwidPositive
                           \/ (call.src = DEV_EXT_UDEV /\ UdevPositive))
        /\ call.src # DEV_EXT_UDEV =>
              \A u \in UdevInfos :
                  dev_is_mpath_component([call EXCEPT !.tab = NoMinors],
                                         [call.dev EXCEPT !.udev = u]).ret = call.res.ret

\* The source is not udev, udev says the device is a multipath member, the
\* holders and the WWID say nothing: the detector returned negative.
C35_Witness ==
    /\ MpathReturned /\ call.src = DEV_EXT_NONE
    /\ call.udev_support /\ call.dev.udev = "mpath_member"
    /\ ~HoldersPositive /\ ~WwidPositive
    /\ ~call.res.ret

----------------------------------------------------------------------------
(* The multipath configuration: the wwids file and the blacklist sections. *)
(* A file is a sequence of lines, a line a string without its newline.     *)

s_wwid == <<"w", "w", "i", "d">>
s_blacklist == <<"b", "l", "a", "c", "k", "l", "i", "s", "t">>
s_blacklist_exceptions == <<"b", "l", "a", "c", "k", "l", "i", "s", "t", "_", "e", "x", "c", "e", "p", "t", "i", "o", "n", "s">>

\* isspace
IsSpace(c) == c \in {" ", "\t"}

\* Index of the first character of the line that is not white space, 0 when
\* there is none (word == NULL).
RECURSIVE WordStart(_, _)
WordStart(line, i) ==
    IF i > Len(line) THEN 0
    ELSE IF IsSpace(line[i]) THEN WordStart(line, i + 1)
    ELSE i

\* Is this character left out as the first "3" of the wwid?
SkipsThree(c, j, found_three) == c = "3" /\ ~found_three

\* The loop of _read_blacklist_file that copies the wwid value from
\* line[i] on: acc is wwid[0..j-1].
RECURSIVE CopyWwid(_, _, _, _, _)
CopyWwid(line, i, acc, found_quote, found_three) ==
    IF i > Len(line) THEN acc
    ELSE IF acc = <<>> /\ IsSpace(line[i])
    THEN CopyWwid(line, i + 1, acc, found_quote, found_three)
    ELSE IF IsSpace(line[i]) THEN acc
    ELSE IF line[i] = "\"" /\ ~found_quote
    THEN CopyWwid(line, i + 1, acc, TRUE, found_three)
    ELSE IF line[i] = "\"" /\ found_quote THEN acc
    ELSE IF SkipsThree(line[i], Len(acc), found_three)
    THEN CopyWwid(line, i + 1, acc, found_quote, TRUE)
    ELSE CopyWwid(line, i + 1, Append(acc, line[i]), found_quote, found_three)

\* The shortest wwid _read_blacklist_file takes.
MIN_WWID == 8

\* _read_blacklist_file(path) from one line on: B holds section_black,
\* section_exceptions and the lists _ignored and _ignored_exceptions.
BlacklistLine(B, line) ==
    Bind(WordStart(line, 1), LAMBDA i :
        IF i = 0 \/ line[i] = "#" THEN B
        ELSE IF strchr(From(line, i), "{") # 0
        THEN IF HasPrefix(From(line, i), s_blacklist_exceptions)
             THEN [B EXCEPT !.section_exceptions = TRUE]
             ELSE IF HasPrefix(From(line, i), s_blacklist)
             THEN [B EXCEPT !.section_black = TRUE]
             ELSE B
        ELSE IF strchr(From(line, i), "}") # 0
        THEN [B EXCEPT !.section_exceptions = FALSE, !.section_black = FALSE]
        ELSE IF ~B.section_black /\ ~B.section_exceptions THEN B
        ELSE IF strstr(From(line, i), s_wwid) = 0 THEN B
        ELSE Bind(CopyWwid(line, i + 4, <<>>, FALSE, FALSE), LAMBDA wwid :
             IF Len(wwid) < MIN_WWID THEN B
             ELSE IF B.section_exceptions
             THEN [B EXCEPT !.ignored_exceptions = @ \cup {wwid}]
             ELSE [B EXCEPT !.ignored = @ \cup {wwid}]))

RECURSIVE BlacklistLines(_, _)
BlacklistLines(B, lines) ==
    IF lines = <<>> THEN B
    ELSE BlacklistLines(BlacklistLine(B, Head(lines)), Tail(lines))

\* _read_blacklist_file(path): the lists after the file; the section flags
\* start cleared in every file.
read_blacklist_file(L, lines) ==
    Bind(BlacklistLines([section_black |-> FALSE, section_exceptions |-> FALSE,
                         ignored |-> L.ignored,
                         ignored_exceptions |-> L.ignored_exceptions], lines),
         LAMBDA B : [ignored |-> B.ignored, ignored_exceptions |-> B.ignored_exceptions])

\* The values of the wwid lines: a SCSI id with its leading 3, one with a
\* second 3, an id whose first 3 is not its first character, an id without 3.
v_naa == <<"3", "6", "0", "0", "1", "2", "3", "4", "a">>
v_naa3 == <<"3", "6", "0", "0", "3", "2", "3", "4", "a">>
v_mid3 == <<"6", "0", "0", "1", "3", "2", "3", "4", "a">>
v_eui == <<"e", "u", "i", ".", "0", "0", "2", "5", "a">>
WwidValues == {v_naa, v_naa3, v_mid3, v_eui}

s_quote == <<"\"">>
s_tab == <<"\t">>
s_sp == <<" ">>
l_close == <<"}">>

\* The line "wwid <value>" of a section, the value in quotes or bare.
WwidLine(v, quoted) ==
    s_tab \o s_wwid \o s_sp \o (IF quoted THEN s_quote \o v \o s_quote ELSE v)

SectionOpen(kind) ==
    (IF kind = "blacklist_exceptions" THEN s_blacklist_exceptions ELSE s_blacklist)
        \o s_sp \o <<"{">>

NoLists == [ignored |-> {}, ignored_exceptions |-> {}]

\* One section holding one wwid line, read by _read_blacklist_file.
WwidLineCalls ==
    [fn : {"read_blacklist_file"}, value : WwidValues, quoted : BOOLEAN,
     kind : {"blacklist", "blacklist_exceptions"}, done : {FALSE}, res : {NoLists}]

ReadBlacklistFileCall ==
    /\ call.fn = "read_blacklist_file" /\ ~call.done
    /\ call' = [call EXCEPT !.done = TRUE,
                            !.res = read_blacklist_file(NoLists,
                                        <<SectionOpen(call.kind),
                                          WwidLine(call.value, call.quoted), l_close>>)]
    /\ UNCHANGED <<mainvars, lockvars, filevars, devtab>>

WwidLineRead == call.fn = "read_blacklist_file" /\ call.done

\* The list the section of the call fills.
RecordedWwids ==
    IF call.kind = "blacklist_exceptions" THEN call.res.ignored_exceptions
    ELSE call.res.ignored

\* The value without a 3 that is its first character.
WithoutLeadingThree(v) == IF v # <<>> /\ Head(v) = "3" THEN Tail(v) ELSE v

\* C39: the WWID taken from a wwid line of a blacklist or
\* blacklist_exceptions section is the value without its surrounding quotes
\* and without a leading 3; every other character, a later 3 included, is
\* kept.
C39_WwidNormalisation ==
    WwidLineRead => RecordedWwids = {WithoutLeadingThree(call.value)}

\* What does hold: the value is taken this way when its first 3, if it has
\* one, is its first character.
WwidNormalisedWhenThreeLeads ==
    WwidLineRead /\ (strchr(call.value, "3") \in {0, 1})
        => RecordedWwids = {WithoutLeadingThree(call.value)}

WwidWithLaterThreeRead ==
    WwidLineRead /\ call.value = v_naa3 /\ call.quoted

----------------------------------------------------------------------------
(* dev_mpath_init: the wwids file, then the blacklist sections of          *)
(* /etc/multipath.conf and of the files of /etc/multipath/conf.d.          *)

\* The entry _read_wwid_file makes of one line of the wwids file.
WwidFileEntry(line) ==
    Bind(IF line # <<>> /\ Head(line) = "/" THEN 3 ELSE 2, LAMBDA i :
        Bind(From(line, i), LAMBDA wwid :
            IF strchr(wwid, "/") # 0
            THEN SubSeq(wwid, 1, strchr(wwid, "/") - 1)
            ELSE wwid))

\* _read_wwid_file(config_wwids_file): the entries added to the set.
read_wwid_file(config_wwids_file, lines) ==
    IF config_wwids_file = <<>> \/ Head(config_wwids_file) # "/" THEN {}
    ELSE {WwidFileEntry(lines[k]) : k \in {x \in DOMAIN lines : Head(lines[x]) # "#"}}

\* The files _read_wwid_exclusions reads, in its order; a file of conf.d
\* whose name begins with a dot is passed over.
ExclusionFiles(conf, confd) ==
    <<conf>> \o SelectSeq(confd, LAMBDA f : Head(f.name) # ".")

RECURSIVE ReadBlacklistFiles(_, _)
ReadBlacklistFiles(L, files) ==
    IF files = <<>> THEN L
    ELSE ReadBlacklistFiles(read_blacklist_file(L, Head(files).lines), Tail(files))

\* The ignored wwids left once those in _ignored_exceptions are removed.
StillIgnored(L) == L.ignored \ L.ignored_exceptions

\* _read_wwid_exclusions(): the set without the wwids still ignored.
read_wwid_exclusions(set, conf, confd) ==
    set \ StillIgnored(ReadBlacklistFiles(NoLists, ExclusionFiles(conf, confd)))

\* dev_mpath_init(config_wwids_file): is there a wwid set, and what it holds.
\* An empty name disables the file; the name is never NULL here.
dev_mpath_init(config_wwids_file, wwids_lines, conf, confd) ==
    IF config_wwids_file = <<>> THEN [has_set |-> FALSE, set |-> {}]
    ELSE [has_set |-> TRUE,
          set |-> read_wwid_exclusions(read_wwid_file(config_wwids_file, wwids_lines),
                                       conf, confd)]

\* The wwids file: a comment line, then two entries.
l_comment == <<"#", " ", "M", "u", "l", "t", "i", "p", "a", "t", "h", " ", "w", "w", "i", "d", "s">>
WwidsFileLines ==
    <<l_comment, <<"/">> \o v_naa \o <<"/">>, <<"/">> \o v_naa3 \o <<"/">>>>
FileWwids == {v_naa, v_naa3}
s_wwids_path == <<"/", "e", "t", "c", "/", "m", "u", "l", "t", "i", "p", "a", "t", "h", "/", "w", "w", "i", "d", "s">>
s_wwids_relative == <<"w", "w", "i", "d", "s">>

\* The items of a section: a wwid line (bare or quoted) or a nested device
\* block, which multipath.conf allows in both sections.
l_device_open == <<"	", "d", "e", "v", "i", "c", "e", " ", "{">>
l_vendor == <<"	", "	", "v", "e", "n", "d", "o", "r", " ", "\"", "x", "\"">>
l_device_close == <<"	", "}">>
ItemLines(item) ==
    IF item.type = "device" THEN <<l_device_open, l_vendor, l_device_close>>
    ELSE <<WwidLine(item.value, item.quoted)>>

RECURSIVE ItemsLines(_)
ItemsLines(items) ==
    IF items = <<>> THEN <<>> ELSE ItemLines(Head(items)) \o ItemsLines(Tail(items))

SectionLines(sec) == <<SectionOpen(sec.kind)>> \o ItemsLines(sec.items) \o <<l_close>>

RECURSIVE SectionsLines(_)
SectionsLines(secs) ==
    IF secs = <<>> THEN <<>> ELSE SectionLines(Head(secs)) \o SectionsLines(Tail(secs))

WwidItem(v, q) == [type |-> "wwid", value |-> v, quoted |-> q]
DeviceItem == [type |-> "device", value |-> <<>>, quoted |-> FALSE]
ItemLists ==
    {<<WwidItem(v_naa, FALSE)>>, <<WwidItem(v_naa, TRUE)>>, <<WwidItem(v_naa3, FALSE)>>,
     <<WwidItem(v_naa, FALSE), WwidItem(v_naa3, TRUE)>>,
     <<DeviceItem, WwidItem(v_naa, FALSE)>>, <<WwidItem(v_naa, FALSE), DeviceItem>>}
Sections == [kind : {"blacklist", "blacklist_exceptions"}, items : ItemLists]

\* The most sections in /etc/multipath.conf.
MaxSections == 2
ConfSections == UNION {[1..n -> Sections] : n \in 0..MaxSections}

\* The directory conf.d: empty, or one file with one section.
ConfdSections ==
    {[kind |-> "blacklist", items |-> <<WwidItem(v_naa, FALSE)>>],
     [kind |-> "blacklist_exceptions", items |-> <<WwidItem(v_naa, TRUE)>>],
     [kind |-> "blacklist_exceptions", items |-> <<DeviceItem, WwidItem(v_naa, FALSE)>>]}
ConfdDirs ==
    {<<>>} \cup {<<[name |-> nm, sections |-> <<sec>>]>> :
                     nm \in {<<"a">>, <<".", "a">>}, sec \in ConfdSections}

InitCalls ==
    [fn : {"dev_mpath_init"}, config_wwids_file : {<<>>, s_wwids_path, s_wwids_relative},
     conf : ConfSections, confd : ConfdDirs, done : {FALSE},
     res : {[has_set |-> FALSE, set |-> {}]}]

DevMpathInitCall ==
    /\ call.fn = "dev_mpath_init" /\ ~call.done
    /\ call' = [call EXCEPT !.done = TRUE,
                  !.res = dev_mpath_init(call.config_wwids_file, WwidsFileLines,
                              [name |-> <<>>, lines |-> SectionsLines(call.conf)],
                              [k \in DOMAIN call.confd |->
                                  [name |-> call.confd[k].name,
                                   lines |-> SectionsLines(call.confd[k].sections)]])]
    /\ UNCHANGED <<mainvars, lockvars, filevars, devtab>>

\* The sections dev_mpath_init is given, those of passed-over files left out.
GivenSections ==
    {call.conf[k] : k \in DOMAIN call.conf}
        \cup UNION {{f.sections[k] : k \in DOMAIN f.sections} :
                      f \in {call.confd[k] : k \in {x \in DOMAIN call.confd :
                                                        Head(call.confd[x].name) # "."}}}

\* Is the WWID on a wwid line of a section of this kind?
ListedIn(kind, w) ==
    \E sec \in GivenSections :
        /\ sec.kind = kind
        /\ \E k \in DOMAIN sec.items :
              sec.items[k].type = "wwid" /\ sec.items[k].value = w

\* Has a section a nested block before one of its wwid lines?
NestedBeforeWwid ==
    \E sec \in GivenSections : \E k \in DOMAIN sec.items : \E m \in DOMAIN sec.items :
        k < m /\ sec.items[k].type = "device" /\ sec.items[m].type = "wwid"

WwidsFileRead ==
    call.fn = "dev_mpath_init" /\ call.done /\ call.config_wwids_file = s_wwids_path

InConsultedSet(w) == call.res.has_set /\ WithoutLeadingThree(w) \in call.res.set

\* C38: after dev_mpath_init a WWID of the wwids file is in the consulted
\* set unless a blacklist section lists it and no blacklist_exceptions
\* section does; a WWID listed in both stays in the set, whatever the order
\* of the sections and of the files.
C38_BlacklistPruning ==
    WwidsFileRead =>
        \A w \in FileWwids :
            ~(ListedIn("blacklist", w) /\ ~ListedIn("blacklist_exceptions", w))
                => InConsultedSet(w)

\* What does hold: when no nested block stands before a wwid line of its
\* section, a WWID of the wwids file is in the set exactly when it is not
\* blacklisted without an exception.
PruningInFlatSections ==
    WwidsFileRead /\ ~NestedBeforeWwid =>
        \A w \in FileWwids :
            InConsultedSet(w)
                <=> ~(ListedIn("blacklist", w) /\ ~ListedIn("blacklist_exceptions", w))

ListedInBothAfterInit ==
    /\ WwidsFileRead /\ ~NestedBeforeWwid
    /\ ListedIn("blacklist", v_naa) /\ ListedIn("blacklist_exceptions", v_naa)
    /\ InConsultedSet(v_naa)

\* One call of one of the operations, on one of its inputs.
InitOps ==
    /\ devtab = DevTabAll
    /\ \/ call \in {k \in WriteCalls : WriteCallConsistent(k)}
       \/ call \in AddCalls
       \/ call \in HintCalls
       \/ call \in MatchCalls
       \/ call \in FindCalls
       \/ call \in KindCalls
       \/ call \in LockOpsCalls
       \/ call \in AttemptCalls
       \/ call \in HoldersCalls
       \/ call \in MpathCalls
       \/ call \in WwidLineCalls
       \/ call \in InitCalls
    /\ MainIdle /\ LockIdle /\ FileIdle

NextOps ==
    \/ DeviceIdsWriteCall
    \/ DeviceIdAddCall
    \/ MetadataHintsCall
    \/ MatchDuToDevCall
    \/ FindRenamedDevsCall
    \/ DeviceIdAddKindCall
    \/ LockOpsCall
    \/ MatchAttemptCall
    \/ HoldersCheckCall
    \/ DevIsMpathComponentCall
    \/ ReadBlacklistFileCall
    \/ DevMpathInitCall

SpecOps == InitOps /\ [][NextOps]_vars

====
